---- MODULE Spec2Model ----
(***************************************************************************)
(* Model of ctk's interactive policy builders:                             *)
(*   - src/src/suggest.rs   : the `suggest` command session                *)
(*   - src/src/schedule.rs  : the `schedule` sub-session                   *)
(*   - src/src/suggestdialog.rs : the prompt-driven wizard                 *)
(*   - src/src/blocksettings.rs : the wizard's data model                  *)
(* Strings the program builds with to_string()/format!/+ are built here    *)
(* with to_string and \o, so their text is what the program would print.    *)
(***************************************************************************)
EXTENDS Integers, Sequences, FiniteSets, TLC

VARIABLES
  list_of_blocks,   \* HashMap<String, BlockSettings> of the running session
  pc,               \* where the session is waiting for input
  block_name,       \* name of the block being built / scheduled
  block_settings,   \* the wizard's BlockSettings under construction
  final_schedule,   \* schedule.rs: Vec<ScheduleBlock> of the sub-session
  cwd,              \* process working directory
  original_curdir,  \* wizard: directory recorded when browsing began
  stdout,           \* lines printed by the last handler that ran
  key_order,        \* iteration order of the list_of_blocks HashMap
  stdin,            \* "open", or "eof" once the input stream was closed
  files,            \* .ctbbl files of the working directory
  call              \* last call of a helper function: its inputs and result

vars == <<list_of_blocks, pc, block_name, block_settings, final_schedule,
          cwd, original_curdir, stdout, key_order, stdin, files, call>>

(***************************************************************************)
(* Bounds of the model.                                                    *)
(***************************************************************************)
MaxSched == 3     \* longest schedule built in one session
MaxIds == 2       \* longest id list given to one schedule Remove
MaxList == 2      \* most entries one wizard stage adds to one list
MaxAttempts == 5  \* most failed attempts one prompt sees before it is answered

(***************************************************************************)
(* Integer to decimal text: Rust's to_string() / "{}" on an unsigned.      *)
(***************************************************************************)
Digits == <<"0", "1", "2", "3", "4", "5", "6", "7", "8", "9">>

RECURSIVE to_string(_)
to_string(n) ==
  IF n < 10 THEN Digits[n + 1]
  ELSE to_string(n \div 10) \o Digits[(n % 10) + 1]

\* usize::MAX as text: what `0usize - 1` prints when the subtraction wraps.
UsizeMaxStr == "18446744073709551615"

\* chrono NaiveTime, as <<hour, minute>>
hour(t) == t[1]
minute(t) == t[2]

Range(s) == {s[i] : i \in DOMAIN s}

(***************************************************************************)
(* suggest.rs: BlockSettings of the command session (string-encoded).      *)
(***************************************************************************)
SuggestBlockSettingsNew ==
  [ sched_type |-> "Continuous",
    lock |-> "None",
    lock_unblock |-> "true",
    restart_unblock |-> "true",
    password |-> "",
    random_text_length |-> to_string(30),
    break_type |-> "none",
    window |-> "lock@9,0@17,0",
    users |-> "",
    web |-> <<>>,
    exceptions |-> <<>>,
    apps |-> <<>>,
    schedule |-> <<>>,
    custom_users |-> <<>> ]

(***************************************************************************)
(* blocksettings.rs: BlockSettings of the wizard (typed fields).           *)
(***************************************************************************)
BlockSettingsNew ==
  [ sched_type |-> "Continuous",
    lock |-> "None",
    lock_unblock |-> TRUE,
    restart_unblock |-> TRUE,
    password |-> "",
    random_text_length |-> 30,
    break_type |-> <<"None">>,
    window |-> [lock_range |-> TRUE, start_time |-> <<9, 0>>, end_time |-> <<17, 0>>],
    users |-> "",
    web |-> <<>>,
    exceptions |-> <<"file://*">>,
    apps |-> <<>>,
    schedule |-> <<>>,
    custom_users |-> <<>> ]

(***************************************************************************)
(* schedule.rs                                                             *)
(***************************************************************************)
\* ScheduleBreak -> text (schedule.rs 212-219 and 283-290)
BreakString(break_type) ==
  CASE break_type[1] = "Nobreak" -> "none"
    [] break_type[1] = "Allowance" -> to_string(break_type[2])
    [] break_type[1] = "Pomodoro" ->
         to_string(break_type[2]) \o "," \o to_string(break_type[3])

\* "," + hour + "," + minute (schedule.rs 203-210 and 274-281)
StringEnd(t) == "," \o to_string(hour(t)) \o "," \o to_string(minute(t))

\* the mutation: --wkend stands for Saturday only
DaysOfWeekShortWeekend(flags) ==
  LET all == "all" \in flags
      wkday == "wkday" \in flags
      wkend == "wkend" \in flags
      sun == "sun" \in flags \/ all
      mon == "mon" \in flags \/ all \/ wkday
      tue == "tue" \in flags \/ all \/ wkday
      wed == "wed" \in flags \/ all \/ wkday
      thu == "thu" \in flags \/ all \/ wkday
      fri == "fri" \in flags \/ all \/ wkday
      sat == "sat" \in flags \/ all \/ wkend
  IN <<sun, mon, tue, wed, thu, fri, sat>>

\* The seven day flags after --all, --wkday and --wkend are applied
\* (schedule.rs 221-245); flags is the set of flags given on the line.
DaysOfWeek(flags) ==
  LET all == "all" \in flags
      wkday == "wkday" \in flags
      wkend == "wkend" \in flags
      sun == "sun" \in flags \/ all \/ wkend
      mon == "mon" \in flags \/ all \/ wkday
      tue == "tue" \in flags \/ all \/ wkday
      wed == "wed" \in flags \/ all \/ wkday
      thu == "thu" \in flags \/ all \/ wkday
      fri == "fri" \in flags \/ all \/ wkday
      sat == "sat" \in flags \/ all \/ wkend
  IN <<sun, mon, tue, wed, thu, fri, sat>>

NUM_OF_DAYS_IN_WEEK == 7

\* The loop `for i in 0..NUM_OF_DAYS_IN_WEEK` of Schedule::Add, from day i on:
\* returns <<schedule, lines printed>>.
RECURSIVE AddLoop(_, _, _, _, _, _, _)
AddLoop(i, days_of_week, sched, out, start_string_end, end_string_end, break_string) ==
  IF i >= NUM_OF_DAYS_IN_WEEK THEN <<sched, out>>
  ELSE IF days_of_week[i + 1]
    THEN LET block == [ id |-> Len(sched),
                        start_time |-> to_string(i) \o start_string_end,
                        end_time |-> to_string(i) \o end_string_end,
                        break_type |-> break_string ]
         IN AddLoop(i + 1, days_of_week, Append(sched, block),
                    Append(out, "Created a schedule block of index " \o to_string(Len(sched))),
                    start_string_end, end_string_end, break_string)
    ELSE AddLoop(i + 1, days_of_week, sched, out,
                 start_string_end, end_string_end, break_string)

\* Renumber without the loop: every entry keeps the id it had
RenumberSkipped(sched) == sched

\* `for i in 0..final_schedule.len() { final_schedule[i].id = i; }`
Renumber(sched) == [i \in 1..Len(sched) |-> [sched[i] EXCEPT !.id = i - 1]]

NumDays(flags) == Cardinality({i \in 1..7 : DaysOfWeek(flags)[i]})

\* Schedule::Add
SchedAdd(start_time, end_time, flags, break_type) ==
  /\ stdin = "open"
  /\ UNCHANGED <<stdin, files, call, key_order>>
  /\ pc = "schedule"
  /\ Len(final_schedule) + NumDays(flags) <= MaxSched \/ final_schedule = <<>>
  /\ LET r == AddLoop(0, DaysOfWeek(flags), final_schedule, <<>>,
                      StringEnd(start_time), StringEnd(end_time),
                      BreakString(break_type))
     IN /\ final_schedule' = r[1]
        /\ stdout' = r[2]
  /\ UNCHANGED <<list_of_blocks, pc, block_name, block_settings, cwd, original_curdir>>

DayNum(day) ==
  CASE day = "Sun" -> "0" [] day = "Mon" -> "1" [] day = "Tue" -> "2"
    [] day = "Wed" -> "3" [] day = "Thu" -> "4" [] day = "Fri" -> "5"
    [] day = "Sat" -> "6"

\* the mutation: the edited block is written to every position
SchedEditOverwritesAll(id, day, start_time, end_time, break_type) ==
  /\ stdin = "open"
  /\ UNCHANGED <<stdin, files, call, key_order>>
  /\ pc = "schedule"
  /\ IF id >= Len(final_schedule)
       THEN /\ final_schedule' = final_schedule
            /\ IF Len(final_schedule) = 0
                 THEN \/ /\ pc' = "panic"
                         /\ stdout' = <<>>
                      \/ /\ pc' = pc
                         /\ stdout' = <<"ID " \o to_string(id)
                              \o " does not exist. Please choose an ID between 0 and "
                              \o UsizeMaxStr \o " inclusive">>
                 ELSE /\ pc' = pc
                      /\ stdout' = <<"ID " \o to_string(id)
                           \o " does not exist. Please choose an ID between 0 and "
                           \o to_string(Len(final_schedule) - 1) \o " inclusive">>
       ELSE /\ LET block == [ id |-> id,
                              start_time |-> DayNum(day) \o StringEnd(start_time),
                              end_time |-> DayNum(day) \o StringEnd(end_time),
                              break_type |-> BreakString(break_type) ]
               IN final_schedule' = [i \in 1..Len(final_schedule) |-> block]
            /\ stdout' = <<"Edited schedule block " \o to_string(id)>>
            /\ pc' = pc
  /\ UNCHANGED <<list_of_blocks, block_name, block_settings, cwd, original_curdir>>

\* Schedule::Edit.  With an id that is not an index nothing is edited; there
\* `final_schedule.len() - 1` underflows on an empty schedule: a build with
\* overflow checks panics, a build without them wraps and prints usize::MAX.
SchedEdit(id, day, start_time, end_time, break_type) ==
  /\ stdin = "open"
  /\ UNCHANGED <<stdin, files, call, key_order>>
  /\ pc = "schedule"
  /\ IF id >= Len(final_schedule)
       THEN /\ final_schedule' = final_schedule
            /\ IF Len(final_schedule) = 0
                 THEN \/ /\ pc' = "panic"
                         /\ stdout' = <<>>
                      \/ /\ pc' = pc
                         /\ stdout' = <<"ID " \o to_string(id)
                              \o " does not exist. Please choose an ID between 0 and "
                              \o UsizeMaxStr \o " inclusive">>
                 ELSE /\ pc' = pc
                      /\ stdout' = <<"ID " \o to_string(id)
                           \o " does not exist. Please choose an ID between 0 and "
                           \o to_string(Len(final_schedule) - 1) \o " inclusive">>
       ELSE /\ LET block == [ id |-> id,
                              start_time |-> DayNum(day) \o StringEnd(start_time),
                              end_time |-> DayNum(day) \o StringEnd(end_time),
                              break_type |-> BreakString(break_type) ]
               IN final_schedule' = [final_schedule EXCEPT ![id + 1] = block]
            /\ stdout' = <<"Edited schedule block " \o to_string(id)>>
            /\ pc' = pc
  /\ UNCHANGED <<list_of_blocks, block_name, block_settings, cwd, original_curdir>>

\* Length of the longest prefix of ids whose members all index final_schedule.
RECURSIVE GoodPrefix(_, _)
GoodPrefix(ids, n) ==
  IF ids = <<>> \/ Head(ids) >= n THEN 0 ELSE 1 + GoodPrefix(Tail(ids), n)

DeletedLines(ids, k) ==
  [j \in 1..k |-> "Deleted schedule blocks " \o to_string(ids[j])]

\* the mutation: each naming of an id flips its mark, so an id named twice
\* is kept
RemoveElementFlips(n, ids) ==
  [i \in 1..n |-> Cardinality({j \in DOMAIN ids : ids[j] = i - 1}) % 2 = 0]

\* vec![true; len] with remove_element[i] = false for every i in ids
RemoveElement(n, ids) == [i \in 1..n |-> (i - 1) \notin Range(ids)]

\* final_schedule.retain(|_| *iter.next().unwrap()): keeps position i when
\* remove_element[i] is true
RECURSIVE Retain(_, _, _)
Retain(sched, remove_element, i) ==
  IF i > Len(sched) THEN <<>>
  ELSE (IF remove_element[i] THEN <<sched[i]>> ELSE <<>>)
       \o Retain(sched, remove_element, i + 1)

\* Schedule::Remove.  `remove_element[i] = false` panics on the first id that
\* is not an index, after the "Deleted" line of that id has been printed.
SchedRemove(ids, all) ==
  /\ stdin = "open"
  /\ UNCHANGED <<stdin, files, call, key_order>>
  /\ pc = "schedule"
  /\ IF all
       THEN /\ final_schedule' = <<>>
            /\ stdout' = <<"Deleted all schedule blocks">>
            /\ pc' = pc
       ELSE LET k == GoodPrefix(ids, Len(final_schedule))
            IN IF k < Len(ids)
                 THEN /\ pc' = "panic"
                      /\ stdout' = DeletedLines(ids, k + 1)
                      /\ final_schedule' = final_schedule
                 ELSE /\ pc' = pc
                      /\ stdout' = DeletedLines(ids, k)
                      /\ final_schedule' =
                           Renumber(Retain(final_schedule,
                                           RemoveElement(Len(final_schedule), ids), 1))
  /\ UNCHANGED <<list_of_blocks, block_name, block_settings, cwd, original_curdir>>

\* #[derive(Serialize)] on a field `id: usize` (schedule.rs 130-133):
\* serde_json writes the number, with no quotes
serialize_usize(num) == to_string(num)

\* serde_json rendering of schedule.rs's ScheduleBlock (derive(Serialize),
\* camelCase, break_type renamed "break"); whitespace of the pretty printer
\* is not modelled.
ScheduleBlockJson(b) ==
  "{\"id\":" \o serialize_usize(b.id)
    \o ",\"startTime\":\"" \o b.start_time
    \o "\",\"endTime\":\"" \o b.end_time
    \o "\",\"break\":\"" \o b.break_type \o "\"}"

RECURSIVE JoinComma(_)
JoinComma(strs) ==
  IF strs = <<>> THEN ""
  ELSE IF Len(strs) = 1 THEN strs[1]
  ELSE strs[1] \o "," \o JoinComma(Tail(strs))

ScheduleJson(sched) ==
  "[" \o JoinComma([i \in 1..Len(sched) |-> ScheduleBlockJson(sched[i])]) \o "]"

\* Schedule::Print
SchedPrint ==
  /\ stdin = "open"
  /\ UNCHANGED <<stdin, files, call, key_order>>
  /\ pc = "schedule"
  /\ stdout' = <<ScheduleJson(final_schedule)>>
  /\ UNCHANGED <<list_of_blocks, pc, block_name, block_settings, final_schedule,
                 cwd, original_curdir>>

\* the mutation: the entries of the sub-session are appended to the schedule
\* the block already has
SchedDoneAppends ==
  /\ stdin = "open"
  /\ UNCHANGED <<stdin, files, call, key_order>>
  /\ pc = "schedule"
  /\ final_schedule' = Renumber(final_schedule)
  /\ list_of_blocks' =
       [list_of_blocks EXCEPT ![block_name].schedule = Renumber(@ \o final_schedule)]
  /\ stdout' = <<"Done with scheduling", "Added a schedule to block " \o block_name>>
  /\ pc' = "suggest"
  /\ UNCHANGED <<block_name, block_settings, cwd, original_curdir>>

\* Schedule::Done, and the rest of Suggest::Schedule that runs when
\* schedule::schedule returns (suggest.rs 578-579)
SchedDone ==
  /\ stdin = "open"
  /\ UNCHANGED <<stdin, files, call, key_order>>
  /\ pc = "schedule"
  /\ final_schedule' = Renumber(final_schedule)
  /\ list_of_blocks' =
       [list_of_blocks EXCEPT ![block_name].schedule = Renumber(final_schedule)]
  /\ stdout' = <<"Done with scheduling", "Added a schedule to block " \o block_name>>
  /\ pc' = "suggest"
  /\ UNCHANGED <<block_name, block_settings, cwd, original_curdir>>

(***************************************************************************)
(* suggest.rs: the command session                                         *)
(***************************************************************************)
\* bool::to_string
bool_to_string(b) == IF b THEN "true" ELSE "false"

contains_key(name) == name \in DOMAIN list_of_blocks

\* the mutation: the removal empties the map
MapRemoveClears(map, name) == [k \in {} |-> map[k]]

\* HashMap::remove
MapRemove(map, name) == [k \in DOMAIN map \ {name} |-> map[k]]

\* HashMap::insert (replaces the value of a key already present)
\* Iteration order of a HashMap is fixed while the map is not modified
\* (suggest.rs 595: list_of_blocks.keys(); serde walks the map the same way).
\* Inserting a new key may rehash the table: any order of the keys can
\* follow; removing a key leaves the others where they are.
Orderings(keys) ==
  {o \in [1..Cardinality(keys) -> keys] : {o[j] : j \in DOMAIN o} = keys}

KeyInsert(order, name) ==
  IF name \in Range(order) THEN {order} ELSE Orderings(Range(order) \cup {name})

KeyRemove(order, name) == SelectSeq(order, LAMBDA k : k # name)

MapInsert(map, name, value) ==
  [k \in DOMAIN map \cup {name} |-> IF k = name THEN value ELSE map[k]]

DoesNotExist(name) == <<"Block " \o name \o " does not exist">>

SuggestFrame == <<block_name, block_settings, final_schedule, cwd, original_curdir>>

\* Suggest::NewBlock
NewBlock(name) ==
  /\ stdin = "open"
  /\ UNCHANGED <<stdin, files, call>>
  /\ pc = "suggest"
  /\ IF contains_key(name)
       THEN /\ stdout' = <<"Block " \o name \o " already exists">>
            /\ list_of_blocks' = list_of_blocks
            /\ key_order' = key_order
       ELSE /\ stdout' = <<"Block " \o name \o " added">>
            /\ list_of_blocks' = MapInsert(list_of_blocks, name, SuggestBlockSettingsNew)
            /\ key_order' \in KeyInsert(key_order, name)
  /\ UNCHANGED <<pc, SuggestFrame>>

\* Suggest::RemoveBlock
RemoveBlock(name) ==
  /\ stdin = "open"
  /\ UNCHANGED <<stdin, files, call>>
  /\ pc = "suggest"
  /\ IF contains_key(name)
       THEN /\ stdout' = <<"Block " \o name \o " removed">>
            /\ list_of_blocks' = MapRemove(list_of_blocks, name)
            /\ key_order' = KeyRemove(key_order, name)
       ELSE /\ stdout' = DoesNotExist(name)
            /\ list_of_blocks' = list_of_blocks
            /\ key_order' = key_order
  /\ UNCHANGED <<pc, SuggestFrame>>

\* Suggest::Unlock
Unlock(name) ==
  /\ stdin = "open"
  /\ UNCHANGED <<stdin, files, call, key_order>>
  /\ pc = "suggest"
  /\ IF contains_key(name)
       THEN /\ list_of_blocks' = [list_of_blocks EXCEPT ![name].lock = "None"]
            /\ stdout' = <<"Block " \o name \o " unlocked">>
       ELSE /\ stdout' = DoesNotExist(name)
            /\ list_of_blocks' = list_of_blocks
  /\ UNCHANGED <<pc, SuggestFrame>>

LockMessage(name, lock_method) ==
  CASE lock_method = "None" -> "Block " \o name \o " unlocked"
    [] lock_method = "Random" ->
         "Block " \o name \o " locked by a string of random characters"
    [] lock_method = "Range" -> "Block " \o name \o " locked within some time range"
    [] lock_method = "Restart" -> "Block " \o name \o " locked until restart"
    [] lock_method = "Password" -> "Block " \o name \o " locked with a password"

\* A lock that also puts the method's fields back to their defaults
LockAssignResets(bs, lock_method) ==
  [bs EXCEPT !.lock = lock_method,
             !.random_text_length = SuggestBlockSettingsNew.random_text_length,
             !.window = SuggestBlockSettingsNew.window,
             !.restart_unblock = SuggestBlockSettingsNew.restart_unblock,
             !.password = SuggestBlockSettingsNew.password]

\* What `bs.lock = lock_method` stores
LockAssign(bs, lock_method) == [bs EXCEPT !.lock = lock_method]

\* Suggest::Lock
Lock(name, lock_method) ==
  /\ stdin = "open"
  /\ UNCHANGED <<stdin, files, call, key_order>>
  /\ pc = "suggest"
  /\ IF contains_key(name)
       THEN /\ list_of_blocks' =
                 [list_of_blocks EXCEPT ![name] = LockAssign(@, lock_method)]
            /\ stdout' = <<LockMessage(name, lock_method)>>
       ELSE /\ stdout' = DoesNotExist(name)
            /\ list_of_blocks' = list_of_blocks
  /\ UNCHANGED <<pc, SuggestFrame>>

\* the mutation: the two words change places
WindowStringFlipped(start_time, end_time, unlocked) ==
  LET window_string == IF unlocked THEN "lock" ELSE "unlock"
      start_string == "@" \o to_string(hour(start_time)) \o "," \o to_string(minute(start_time))
      end_string == "@" \o to_string(hour(end_time)) \o "," \o to_string(minute(end_time))
  IN window_string \o start_string \o end_string

\* The window text of LockMethodConfig::Range (suggest.rs 370-383)
WindowString(start_time, end_time, unlocked) ==
  LET window_string == IF unlocked THEN "unlock" ELSE "lock"
      start_string == "@" \o to_string(hour(start_time)) \o "," \o to_string(minute(start_time))
      end_string == "@" \o to_string(hour(end_time)) \o "," \o to_string(minute(end_time))
  IN window_string \o start_string \o end_string

\* the mutation: the method configured becomes the active one, --lock or not
ConfigAssignAlwaysLocks(bs, lock_method, lock) ==
  CASE lock_method[1] = "Random" ->
         [bs EXCEPT !.random_text_length = to_string(lock_method[2]), !.lock = "Random"]
    [] lock_method[1] = "Range" ->
         [bs EXCEPT !.window = WindowString(lock_method[2], lock_method[3], lock_method[4]),
                    !.lock = "Range"]
    [] lock_method[1] = "Restart" ->
         [bs EXCEPT !.restart_unblock = bool_to_string(lock_method[2]), !.lock = "Restart"]
    [] lock_method[1] = "Password" ->
         [bs EXCEPT !.password = IF lock_method[2][1] = "Ok" THEN lock_method[2][2] ELSE @,
                    !.lock = "Password"]

\* What Suggest::Config stores in an existing block.  lock_method is
\*   <<"Random", length>> | <<"Range", start_time, end_time, unlocked>>
\*   | <<"Restart", unlocked>> | <<"Password", result of prompt_password>>
\* where the prompt's result is <<"Ok", text>> or <<"Err">>.
ConfigAssign(bs, lock_method, lock) ==
  CASE lock_method[1] = "Random" ->
         [bs EXCEPT !.random_text_length = to_string(lock_method[2]),
                    !.lock = IF lock THEN "Random" ELSE @]
    [] lock_method[1] = "Range" ->
         [bs EXCEPT !.window = WindowString(lock_method[2], lock_method[3], lock_method[4]),
                    !.lock = IF lock THEN "Range" ELSE @]
    [] lock_method[1] = "Restart" ->
         [bs EXCEPT !.restart_unblock = bool_to_string(lock_method[2]),
                    !.lock = IF lock THEN "Restart" ELSE @]
    [] lock_method[1] = "Password" ->
         [bs EXCEPT !.password = IF lock_method[2][1] = "Ok" THEN lock_method[2][2] ELSE @,
                    !.lock = IF lock THEN "Password" ELSE @]

ConfigMessage(name, lock_method, lock) ==
  LET is_locked == IF lock THEN " and locked" ELSE ""
  IN CASE lock_method[1] = "Random" ->
            "Block " \o name \o " was configured" \o is_locked \o " with "
              \o to_string(lock_method[2]) \o " random characters"
       [] lock_method[1] = "Range" ->
            "Block " \o name \o " was configured" \o is_locked \o " with a time range"
       [] lock_method[1] = "Restart" ->
            "Block " \o name \o " was configured" \o is_locked \o " by restart"
       [] lock_method[1] = "Password" ->
            "Block " \o name \o " was configured" \o is_locked \o " with a password"

\* Suggest::Config
Config(name, lock_method, lock) ==
  /\ stdin = "open"
  /\ UNCHANGED <<stdin, files, call, key_order>>
  /\ pc = "suggest"
  /\ IF contains_key(name)
       THEN /\ list_of_blocks' =
                 [list_of_blocks EXCEPT ![name] = ConfigAssign(@, lock_method, lock)]
            /\ stdout' = <<ConfigMessage(name, lock_method, lock)>>
       ELSE /\ stdout' = DoesNotExist(name)
            /\ list_of_blocks' = list_of_blocks
  /\ UNCHANGED <<pc, SuggestFrame>>

\* Suggest::Nobreak
Nobreak(name) ==
  /\ stdin = "open"
  /\ UNCHANGED <<stdin, files, call, key_order>>
  /\ pc = "suggest"
  /\ IF contains_key(name)
       THEN /\ list_of_blocks' = [list_of_blocks EXCEPT ![name].break_type = "none"]
            /\ stdout' = <<"Blocks " \o name \o " with no breaks">>
       ELSE /\ stdout' = DoesNotExist(name)
            /\ list_of_blocks' = list_of_blocks
  /\ UNCHANGED <<pc, SuggestFrame>>

\* Suggest::Allowance
Allowance(name, allowance_minutes) ==
  /\ stdin = "open"
  /\ UNCHANGED <<stdin, files, call, key_order>>
  /\ pc = "suggest"
  /\ IF contains_key(name)
       THEN /\ list_of_blocks' =
                 [list_of_blocks EXCEPT ![name].break_type = to_string(allowance_minutes)]
            /\ stdout' = <<"Block " \o name \o " has an allowance of "
                             \o to_string(allowance_minutes) \o " min">>
       ELSE /\ stdout' = DoesNotExist(name)
            /\ list_of_blocks' = list_of_blocks
  /\ UNCHANGED <<pc, SuggestFrame>>

\* Suggest::Pomodoro
Pomodoro(name, lock_minutes, break_minutes) ==
  /\ stdin = "open"
  /\ UNCHANGED <<stdin, files, call, key_order>>
  /\ pc = "suggest"
  /\ IF contains_key(name)
       THEN /\ list_of_blocks' =
                 [list_of_blocks EXCEPT ![name].break_type =
                    to_string(lock_minutes) \o "," \o to_string(break_minutes)]
            /\ stdout' = <<"Block " \o name \o " has pomodoro of "
                             \o to_string(lock_minutes) \o " block min, "
                             \o to_string(break_minutes) \o " break min">>
       ELSE /\ stdout' = DoesNotExist(name)
            /\ list_of_blocks' = list_of_blocks
  /\ UNCHANGED <<pc, SuggestFrame>>

\* Suggest::Continuous
Continuous(name) ==
  /\ stdin = "open"
  /\ UNCHANGED <<stdin, files, call, key_order>>
  /\ pc = "suggest"
  /\ IF contains_key(name)
       THEN /\ list_of_blocks' = [list_of_blocks EXCEPT ![name].sched_type = "Continuous"]
            /\ stdout' = <<"Made block " \o name
                             \o " to be blocked continously without schedule">>
       ELSE /\ stdout' = DoesNotExist(name)
            /\ list_of_blocks' = list_of_blocks
  /\ UNCHANGED <<pc, SuggestFrame>>

\* the mutation: the sub-session starts whether the block exists or not
ScheduleStartsAnyway(name) ==
  /\ stdin = "open"
  /\ UNCHANGED <<stdin, files, call, key_order>>
  /\ pc = "suggest"
  /\ list_of_blocks' = IF contains_key(name)
                          THEN [list_of_blocks EXCEPT ![name].sched_type = "Scheduled"]
                          ELSE list_of_blocks
  /\ final_schedule' = <<>>
  /\ block_name' = name
  /\ pc' = "schedule"
  /\ stdout' = <<>>
  /\ UNCHANGED <<block_settings, cwd, original_curdir>>

\* Suggest::Schedule up to the first prompt of schedule::schedule
\* (suggest.rs 575-578, schedule.rs 181-185)
Schedule(name) ==
  /\ stdin = "open"
  /\ UNCHANGED <<stdin, files, call, key_order>>
  /\ pc = "suggest"
  /\ IF contains_key(name)
       THEN /\ list_of_blocks' = [list_of_blocks EXCEPT ![name].sched_type = "Scheduled"]
            /\ final_schedule' = <<>>
            /\ block_name' = name
            /\ pc' = "schedule"
            /\ stdout' = <<>>
       ELSE /\ stdout' = DoesNotExist(name)
            /\ UNCHANGED <<list_of_blocks, final_schedule, block_name, pc>>
  /\ UNCHANGED <<block_settings, cwd, original_curdir>>

\* Suggest::Quit
Quit ==
  /\ stdin = "open"
  /\ UNCHANGED <<stdin, files, call, key_order>>
  /\ pc = "suggest"
  /\ pc' = "quit"
  /\ stdout' = <<>>
  /\ UNCHANGED <<list_of_blocks, SuggestFrame>>

(***************************************************************************)
(* suggest.rs: what the session shows and writes.  serde_json's pretty     *)
(* printer adds line breaks and indentation between the tokens; the text   *)
(* here is the same tokens without that white space.  A string is written  *)
(* between quotes; the inputs of the model hold no character that JSON or  *)
(* {:?} escapes.                                                           *)
(***************************************************************************)
Quote(s) == "\"" \o s \o "\""

RECURSIVE Join(_, _)
Join(strs, sep) ==
  IF strs = <<>> THEN ""
  ELSE IF Len(strs) = 1 THEN strs[1]
  ELSE strs[1] \o sep \o Join(Tail(strs), sep)

\* #[derive(Debug)] on Vec<String>
DebugStrings(list) ==
  "[" \o Join([i \in 1..Len(list) |-> Quote(list[i])], ", ") \o "]"

\* #[derive(Debug)] on schedule::ScheduleBlock (schedule.rs 130-138)
ScheduleBlockDebug(b) ==
  "ScheduleBlock { id: " \o to_string(b.id)
    \o ", start_time: " \o Quote(b.start_time)
    \o ", end_time: " \o Quote(b.end_time)
    \o ", break_type: " \o Quote(b.break_type) \o " }"

\* #[derive(Debug)] on BlockSettings (suggest.rs 188-207): every field by
\* name, the password among them
BlockSettingsDebug(bs) ==
  "BlockSettings { sched_type: " \o bs.sched_type
    \o ", lock: " \o bs.lock
    \o ", lock_unblock: " \o Quote(bs.lock_unblock)
    \o ", restart_unblock: " \o Quote(bs.restart_unblock)
    \o ", password: " \o Quote(bs.password)
    \o ", random_text_length: " \o Quote(bs.random_text_length)
    \o ", break_type: " \o Quote(bs.break_type)
    \o ", window: " \o Quote(bs.window)
    \o ", users: " \o Quote(bs.users)
    \o ", web: " \o DebugStrings(bs.web)
    \o ", exceptions: " \o DebugStrings(bs.exceptions)
    \o ", apps: " \o DebugStrings(bs.apps)
    \o ", schedule: ["
    \o Join([i \in 1..Len(bs.schedule) |-> ScheduleBlockDebug(bs.schedule[i])], ", ")
    \o "], custom_users: " \o DebugStrings(bs.custom_users) \o " }"

\* what `settings <name>` prints for a map (suggest.rs 583-586)
SettingsLines(map, name) ==
  IF name \in DOMAIN map THEN <<BlockSettingsDebug(map[name])>>
  ELSE <<"Block " \o name \o " does not exist">>

\* Suggest::Settings
Settings(name) ==
  /\ stdin = "open"
  /\ UNCHANGED <<stdin, files, call, key_order>>
  /\ pc = "suggest"
  /\ stdout' = SettingsLines(list_of_blocks, name)
  /\ UNCHANGED <<list_of_blocks, pc, SuggestFrame>>

\* serde: LockMethod with rename_all = "lowercase", Range renamed "window"
\* (suggest.rs 125-139)
LockMethodJson(lock) ==
  CASE lock = "None" -> "none"
    [] lock = "Random" -> "random"
    [] lock = "Range" -> "window"
    [] lock = "Restart" -> "restart"
    [] OTHER -> "password"

\* serde: SchedType with rename_all = "lowercase" (suggest.rs 209-214)
SchedTypeJson(sched_type) ==
  IF sched_type = "Scheduled" THEN "scheduled" ELSE "continuous"

JsonStrings(list) ==
  "[" \o Join([i \in 1..Len(list) |-> Quote(list[i])], ",") \o "]"

\* serde: BlockSettings with rename_all = "camelCase" (suggest.rs 188-207)
SuggestBlockSettingsJson(bs) ==
  "{\"type\":" \o Quote(SchedTypeJson(bs.sched_type))
    \o ",\"lock\":" \o Quote(LockMethodJson(bs.lock))
    \o ",\"lockUnblock\":" \o Quote(bs.lock_unblock)
    \o ",\"restartUnblock\":" \o Quote(bs.restart_unblock)
    \o ",\"password\":" \o Quote(bs.password)
    \o ",\"randomTextLength\":" \o Quote(bs.random_text_length)
    \o ",\"break\":" \o Quote(bs.break_type)
    \o ",\"window\":" \o Quote(bs.window)
    \o ",\"users\":" \o Quote(bs.users)
    \o ",\"web\":" \o JsonStrings(bs.web)
    \o ",\"exceptions\":" \o JsonStrings(bs.exceptions)
    \o ",\"apps\":" \o JsonStrings(bs.apps)
    \o ",\"schedule\":" \o ScheduleJson(bs.schedule)
    \o ",\"customUsers\":" \o JsonStrings(bs.custom_users) \o "}"

\* The map as the serializer writes it, piece by piece: the opening brace,
\* one piece per entry in the map's iteration order, the closing brace.
\* The pieces joined are the whole text; a writer that fails has written
\* some of the first pieces only.
MapPieces(entries, order) ==
  <<"{">>
    \o [i \in 1..Len(order) |->
          (IF i = 1 THEN "" ELSE ",") \o Quote(order[i]) \o ":" \o entries[order[i]]]
    \o <<"}">>

SuggestPieces(map, order) ==
  MapPieces([k \in DOMAIN map |-> SuggestBlockSettingsJson(map[k])], order)

\* what `list` prints for a map (suggest.rs 587-599); to_string_pretty of
\* a map of strings has no failure to report
ListLines(map, order, verbose) ==
  IF verbose THEN <<Join(SuggestPieces(map, order), "")>> ELSE order

\* the mutation: walking the map to print it moves its entries
ListRehashes(verbose) ==
  /\ stdin = "open"
  /\ UNCHANGED <<stdin, files, call>>
  /\ pc = "suggest"
  /\ stdout' = ListLines(list_of_blocks, key_order, verbose)
  /\ key_order' \in Orderings(DOMAIN list_of_blocks)
  /\ UNCHANGED <<list_of_blocks, pc, SuggestFrame>>

\* Suggest::List
List(verbose) ==
  /\ stdin = "open"
  /\ UNCHANGED <<stdin, files, call>>
  /\ pc = "suggest"
  /\ stdout' = ListLines(list_of_blocks, key_order, verbose)
  /\ UNCHANGED <<list_of_blocks, key_order, pc, SuggestFrame>>

(***************************************************************************)
(* The command loops at the end of the input stream.  read_line at end of  *)
(* input is Ok(0) with an empty line (no Err), shlex::split("") is an      *)
(* empty list, and clap rejects the command line that holds the program    *)
(* name only.                                                              *)
(***************************************************************************)
\* the input stream is closed (end of a piped file, ^D)
CloseStdin ==
  /\ stdin = "open"
  /\ stdin' = "eof"
  /\ UNCHANGED <<list_of_blocks, key_order, pc, SuggestFrame, stdout, files, call>>

\* clap_error.print() for a line without a subcommand: the usage text
MissingSubcommand(program) == "error: '" \o program \o "' requires a subcommand"

\* stdin_to_suggest at end of input (suggest.rs 250-287): the Err arm of
\* try_parse_from prints and continues to the next read
SuggestEof ==
  /\ stdin = "eof"
  /\ pc = "suggest"
  /\ stdout' = <<MissingSubcommand("suggest")>>
  /\ UNCHANGED <<list_of_blocks, key_order, pc, SuggestFrame, stdin, files, call>>

\* stdin_to_schedule at end of input (schedule.rs 141-178)
ScheduleEof ==
  /\ stdin = "eof"
  /\ pc = "schedule"
  /\ stdout' = <<MissingSubcommand("schedule")>>
  /\ UNCHANGED <<list_of_blocks, key_order, pc, SuggestFrame, stdin, files, call>>

(***************************************************************************)
(* loop_dialoguer.rs: the prompt primitive.  `call` holds what the         *)
(* closure returned at each attempt so far and the value handed back.      *)
(***************************************************************************)
\* a call of loop_interact() that made no attempt yet (loop_dialoguer.rs 20-56:
\* every implementation passes its own interact() to looped_dialoguer)
LoopInteract == [fn |-> "looped_dialoguer", attempts |-> <<>>, returned |-> <<>>]

\* the mutation: an error ends the loop and an empty value is handed back
looped_dialoguer_gives_up(result) ==
  /\ pc = "dialogue"
  /\ call.fn = "looped_dialoguer"
  /\ Len(call.attempts) < MaxAttempts \/ result[1] = "Ok"
  /\ IF result[1] = "Ok"
       THEN /\ call' = [call EXCEPT !.attempts = Append(@, result),
                                    !.returned = <<result[2]>>]
            /\ stdout' = <<>>
       ELSE /\ call' = [call EXCEPT !.attempts = Append(@, result),
                                    !.returned = <<"">>]
            /\ stdout' = <<result[2]>>
  /\ pc' = "returned"
  /\ UNCHANGED <<list_of_blocks, key_order, SuggestFrame, stdin, files>>

\* One turn of the loop of looped_dialoguer (loop_dialoguer.rs 5-18).
\* result is what dialogue() returned: <<"Ok", value>> or <<"Err", err>>;
\* the error is printed with eprintln!
looped_dialoguer(result) ==
  /\ pc = "dialogue"
  /\ call.fn = "looped_dialoguer"
  /\ Len(call.attempts) < MaxAttempts \/ result[1] = "Ok"
  /\ IF result[1] = "Ok"
       THEN /\ call' = [call EXCEPT !.attempts = Append(@, result),
                                    !.returned = <<result[2]>>]
            /\ pc' = "returned"
            /\ stdout' = <<>>
       ELSE /\ call' = [call EXCEPT !.attempts = Append(@, result)]
            /\ pc' = pc
            /\ stdout' = <<result[2]>>
  /\ UNCHANGED <<list_of_blocks, key_order, SuggestFrame, stdin, files>>

(***************************************************************************)
(* The filesystem the wizard's browser sees.  A path is the sequence of    *)
(* the pieces of its text, separators included, so that text operations    *)
(* (replace, prefixing) are computed on it.                                *)
(***************************************************************************)
Home == <<"/", "home">>
Apps == <<"/", "home", "/", "apps">>
GameExe == <<"/", "home", "/", "apps", "/", "game.exe">>
Notes == <<"/", "home", "/", "notes.txt">>
\* a directory whose name is not valid UTF-8: Path::to_str() is None on it
Odd == <<"/", "home", "/", "<not utf-8>">>
\* a symbolic link to Odd, with a UTF-8 name a user can type
OddLink == <<"/", "home", "/", "odd">>
\* a directory that was removed while it was the working directory
Gone == <<"/", "gone">>
Nowhere == <<"/", "nowhere">>
Games == <<"/", "home", "/", "games">>

Directories == {Home, Apps, Odd, Games}
Files == {GameExe, Notes}

\* the directory a path names, following links
Resolve(path) == IF path = OddLink THEN Odd ELSE path

is_dir(path) == Resolve(path) \in Directories
is_file(path) == path \in Files

\* Path::to_str(): None is modelled by to_str_is_some being false
to_str_is_some(path) == path # Odd

\* env::current_dir() is Ok
current_dir_is_ok(dir) == dir # Gone

\* env::set_current_dir(path): the new working directory; unchanged on failure
\* (the callers drop the Result)
set_current_dir(dir, path) == IF is_dir(path) THEN Resolve(path) ELSE dir

(***************************************************************************)
(* suggestdialog.rs: the wizard                                            *)
(***************************************************************************)
\* break_method_from_stdin (suggestdialog.rs 240-291).  choice is what the
\* prompts returned: <<0>> | <<1, allow_minutes>> | <<2, block_minutes, break_minutes>>
break_method_from_stdin(choice) ==
  CASE choice[1] = 1 -> <<"Allowance", choice[2]>>
    [] choice[1] = 2 -> <<"Pomodoro", choice[2], choice[3]>>
    [] OTHER -> <<"None">>

\* new_block_name() and the construction at the top of block_settings_from_stdin
WizName(name) ==
  /\ stdin = "open"
  /\ UNCHANGED <<stdin, files, call, key_order>>
  /\ pc = "w_name"
  /\ block_name' = name
  /\ block_settings' = BlockSettingsNew
  /\ pc' = "w_lock"
  /\ stdout' = <<>>
  /\ UNCHANGED <<list_of_blocks, final_schedule, cwd, original_curdir>>

\* The lock stage (suggestdialog.rs 297-387).  choice is what the prompts
\* returned: <<0>> | <<1, length>> | <<2, start_time, end_time, lock_range>>
\*   | <<3, restart_unblock>> | <<4, password>>
LockStage(bs, choice) ==
  CASE choice[1] = 1 -> [bs EXCEPT !.lock = "Random", !.random_text_length = choice[2]]
    [] choice[1] = 2 ->
         [bs EXCEPT !.lock = "Range",
                    !.window = [lock_range |-> choice[4],
                                start_time |-> choice[2], end_time |-> choice[3]]]
    [] choice[1] = 3 -> [bs EXCEPT !.lock = "Restart", !.restart_unblock = choice[2]]
    [] choice[1] = 4 -> [bs EXCEPT !.lock = "Password", !.password = choice[2]]
    [] OTHER -> [bs EXCEPT !.lock = "None"]

WizLock(choice) ==
  /\ stdin = "open"
  /\ UNCHANGED <<stdin, files, call, key_order>>
  /\ pc = "w_lock"
  /\ block_settings' = LockStage(block_settings, choice)
  /\ pc' = "w_break"
  /\ stdout' = <<>>
  /\ UNCHANGED <<list_of_blocks, block_name, final_schedule, cwd, original_curdir>>

\* block_settings.break_type = break_method_from_stdin()
WizBreak(choice) ==
  /\ stdin = "open"
  /\ UNCHANGED <<stdin, files, call, key_order>>
  /\ pc = "w_break"
  /\ block_settings' = [block_settings EXCEPT !.break_type = break_method_from_stdin(choice)]
  /\ pc' = "w_web_gate"
  /\ stdout' = <<>>
  /\ UNCHANGED <<list_of_blocks, block_name, final_schedule, cwd, original_curdir>>

\* A yes/no gate that only selects the next prompt
Gate(here, answer, if_yes, if_no) ==
  /\ stdin = "open"
  /\ UNCHANGED <<stdin, files, call, key_order>>
  /\ pc = here
  /\ pc' = IF answer THEN if_yes ELSE if_no
  /\ stdout' = <<>>
  /\ UNCHANGED <<list_of_blocks, block_name, block_settings, final_schedule,
                 cwd, original_curdir>>

\* "Do you want to add websites to the blocklist?"
WizWebGate(website_block) == Gate("w_web_gate", website_block, "w_web", "w_exc_gate")

\* the mutation: the website is pushed before it is looked at
WizWebPushesFirst(website) ==
  /\ stdin = "open"
  /\ UNCHANGED <<stdin, files, call, key_order>>
  /\ pc = "w_web"
  /\ Len(block_settings.web) < MaxList
  /\ pc' = IF website = "" THEN "w_exc_gate" ELSE pc
  /\ block_settings' = [block_settings EXCEPT !.web = Append(@, website)]
  /\ stdout' = <<>>
  /\ UNCHANGED <<list_of_blocks, block_name, final_schedule, cwd, original_curdir>>

\* One turn of the website loop (suggestdialog.rs 404-420)
WizWeb(website) ==
  /\ stdin = "open"
  /\ UNCHANGED <<stdin, files, call, key_order>>
  /\ pc = "w_web"
  /\ IF website = ""
       THEN /\ pc' = "w_exc_gate"
            /\ block_settings' = block_settings
       ELSE /\ Len(block_settings.web) < MaxList
            /\ pc' = pc
            /\ block_settings' = [block_settings EXCEPT !.web = Append(@, website)]
  /\ stdout' = <<>>
  /\ UNCHANGED <<list_of_blocks, block_name, final_schedule, cwd, original_curdir>>

\* the mutation: a yes at the gate of the exceptions asks for websites again
WizExcGateAsksWebsites(website_exception) ==
  Gate("w_exc_gate", website_exception, "w_web", "w_app_gate")

\* "Do you want to add websites to the exceptions list?"
WizExcGate(website_exception) ==
  Gate("w_exc_gate", website_exception, "w_exc", "w_app_gate")

\* One turn of the exceptions loop (suggestdialog.rs 435-451)
WizExc(website) ==
  /\ stdin = "open"
  /\ UNCHANGED <<stdin, files, call, key_order>>
  /\ pc = "w_exc"
  /\ IF website = ""
       THEN /\ pc' = "w_app_gate"
            /\ block_settings' = block_settings
       ELSE /\ Len(block_settings.exceptions) <= MaxList
            /\ pc' = pc
            /\ block_settings' = [block_settings EXCEPT !.exceptions = Append(@, website)]
  /\ stdout' = <<>>
  /\ UNCHANGED <<list_of_blocks, block_name, final_schedule, cwd, original_curdir>>

\* The indices a MultiSelect returns, in increasing order
RECURSIVE Ascending(_, _, _)
Ascending(chosen, i, n) ==
  IF i >= n THEN <<>>
  ELSE (IF i \in chosen THEN <<i>> ELSE <<>>) \o Ascending(chosen, i + 1, n)

\* str::replace("\\", "/")
ReplaceBackslash(path) == [i \in DOMAIN path |-> IF path[i] = "\\" THEN "/" ELSE path[i]]

\* `return None` from block_settings_from_stdin: nothing is inserted and
\* suggest() goes on to "Do you want to add new blocks?"
ReturnNone(message) ==
  /\ pc' = "w_more"
  /\ stdout' = <<message>>
  /\ UNCHANGED <<list_of_blocks, block_name, block_settings, final_schedule,
                 cwd, original_curdir>>

\* "Do you want to add executables or folders to the block?" and, on yes,
\* the recording of the working directory (suggestdialog.rs 454-477)
WizAppGate(app_block) ==
  /\ stdin = "open"
  /\ UNCHANGED <<stdin, files, call, key_order>>
  /\ pc = "w_app_gate"
  /\ IF ~app_block
       THEN /\ pc' = "w_win10"
            /\ stdout' = <<>>
            /\ UNCHANGED <<list_of_blocks, block_name, block_settings, final_schedule,
                           cwd, original_curdir>>
       ELSE IF ~current_dir_is_ok(cwd)
         THEN ReturnNone("No such file or directory (os error 2)")
       ELSE IF ~to_str_is_some(cwd)
         THEN ReturnNone("Cannot print out the string of the current directory.")
       ELSE /\ original_curdir' = cwd
            /\ pc' = "w_browse"
            /\ stdout' = <<>>
            /\ UNCHANGED <<list_of_blocks, block_name, block_settings,
                           final_schedule, cwd>>

\* What follows the browser loop (suggestdialog.rs 648-658)
AfterBrowse ==
  IF current_dir_is_ok(cwd)
    THEN IF ~to_str_is_some(cwd)
           THEN ReturnNone("Cannot print out the string of the current directory.")
           ELSE /\ cwd' = set_current_dir(cwd, original_curdir)
                /\ pc' = "w_win10"
                /\ stdout' = <<>>
                /\ UNCHANGED <<list_of_blocks, block_name, block_settings,
                               final_schedule, original_curdir>>
    ELSE /\ pc' = "w_win10"
         /\ stdout' = <<>>
         /\ UNCHANGED <<list_of_blocks, block_name, block_settings, final_schedule,
                        cwd, original_curdir>>

\* The browser prompts only while env::current_dir() is Ok
BrowsePrompt == pc = "w_browse" /\ current_dir_is_ok(cwd)

\* The read of the command line fails: `break`
BrowseReadErr ==
  /\ stdin = "open"
  /\ UNCHANGED <<stdin, files, call, key_order>>
  /\ BrowsePrompt
  /\ AfterBrowse

\* shlex::split returns None
BrowseUnparsed ==
  /\ stdin = "open"
  /\ UNCHANGED <<stdin, files, call, key_order>>
  /\ BrowsePrompt
  /\ stdout' = <<"Cannot parse the command - please try again.">>
  /\ UNCHANGED <<list_of_blocks, pc, block_name, block_settings, final_schedule,
                 cwd, original_curdir>>

\* cd [path]
BrowseCd(shlex_parse) ==
  /\ stdin = "open"
  /\ UNCHANGED <<stdin, files, call, key_order>>
  /\ BrowsePrompt
  /\ Len(shlex_parse) >= 1 /\ shlex_parse[1] = "cd"
  /\ cwd' = IF Len(shlex_parse) = 2
              THEN set_current_dir(cwd, shlex_parse[2])
              ELSE cwd  \* set_current_dir(".")
  /\ stdout' = <<>>
  /\ UNCHANGED <<list_of_blocks, pc, block_name, block_settings, final_schedule,
                 original_curdir>>

\* done | quit | q
BrowseDone(shlex_parse) ==
  /\ stdin = "open"
  /\ UNCHANGED <<stdin, files, call, key_order>>
  /\ BrowsePrompt
  /\ Len(shlex_parse) >= 1 /\ shlex_parse[1] \in {"done", "quit", "q"}
  /\ AfterBrowse

\* std::fs::read_dir: the entries of a directory, in the order the OS gives them
read_dir(dir) ==
  CASE Resolve(dir) = Home -> <<Apps, Notes, Odd, OddLink, Games>>
    [] Resolve(dir) = Apps -> <<GameExe>>
    [] OTHER -> <<>>

extension(path) ==
  CASE path = GameExe -> "exe"
    [] path = Notes -> "txt"
    [] OTHER -> ""

\* The candidates ls offers (suggestdialog.rs 517-522)
AppsList(dir) ==
  SelectSeq(read_dir(dir),
            LAMBDA e : (extension(e) = "exe" \/ is_dir(e)) /\ to_str_is_some(e))

\* The pushes one selection makes (suggestdialog.rs 539-547 and 628-636)
RECURSIVE PushSelected(_, _, _)
PushSelected(apps, list, idxs) ==
  IF idxs = <<>> THEN apps
  ELSE LET str == ReplaceBackslash(list[Head(idxs) + 1])
           next == IF is_dir(str) THEN Append(apps, <<"Folder", str>>)
                   ELSE IF is_file(str) THEN Append(apps, <<"File", str>>)
                   ELSE apps
       IN PushSelected(next, list, Tail(idxs))

\* ls [path].  selection is what the MultiSelect returned: <<"Ok", set of
\* indices>> or <<"Err">>; it is asked only when there are candidates.
BrowseLs(shlex_parse, selection) ==
  /\ stdin = "open"
  /\ UNCHANGED <<stdin, files, call, key_order>>
  /\ BrowsePrompt
  /\ Len(shlex_parse) >= 1 /\ shlex_parse[1] = "ls"
  /\ LET dir_to_look == IF Len(shlex_parse) = 2 THEN shlex_parse[2] ELSE cwd
         apps_list == AppsList(dir_to_look)
     IN IF ~is_dir(dir_to_look)
          THEN /\ stdout' = <<"No such file or directory (os error 2)">>
               /\ block_settings' = block_settings
          ELSE IF Len(apps_list) = 0
            THEN /\ stdout' = <<>>
                 /\ block_settings' = block_settings
          ELSE IF selection[1] = "Err"
            THEN /\ stdout' = <<"IO error">>
                 /\ block_settings' = block_settings
          ELSE /\ selection[2] \subseteq 0..(Len(apps_list) - 1)
               /\ Len(block_settings.apps) + Cardinality(selection[2]) <= MaxList
               /\ stdout' = <<>>
               /\ block_settings' =
                    [block_settings EXCEPT !.apps =
                       PushSelected(@, apps_list,
                                    Ascending(selection[2], 0, Len(apps_list)))]
  /\ UNCHANGED <<list_of_blocks, pc, block_name, final_schedule, cwd, original_curdir>>

\* A first word that is no command: no branch of the if-chain runs
BrowseOther(shlex_parse) ==
  /\ stdin = "open"
  /\ UNCHANGED <<stdin, files, call, key_order>>
  /\ BrowsePrompt
  /\ Len(shlex_parse) >= 1
  /\ shlex_parse[1] \notin {"cd", "ls", "search", "done", "quit", "q"}
  /\ stdout' = <<>>
  /\ UNCHANGED <<list_of_blocks, pc, block_name, block_settings, final_schedule,
                 cwd, original_curdir>>

\* A line with no words: `&shlex_parse[0]` is out of bounds
BrowseEmpty ==
  /\ stdin = "open"
  /\ UNCHANGED <<stdin, files, call, key_order>>
  /\ BrowsePrompt
  /\ pc' = "w_panic"
  /\ stdout' = <<>>
  /\ UNCHANGED <<list_of_blocks, block_name, block_settings, final_schedule,
                 cwd, original_curdir>>

\* The head of the WIN10_APPS catalog (suggestdialog.rs 20-120)
WIN10_APPS == <<"3DViewer.exe", "AccountsControlHost.exe">>

RECURSIVE PushWin10(_, _)
PushWin10(apps, idxs) ==
  IF idxs = <<>> THEN apps
  ELSE PushWin10(Append(apps, <<"Win10", WIN10_APPS[Head(idxs) + 1]>>), Tail(idxs))

\* "Do you want to add Windows 10 applications or not?" and the MultiSelect
\* over the catalog (suggestdialog.rs 661-694)
WizWin10(win10_blocks, win10_choice) ==
  /\ stdin = "open"
  /\ UNCHANGED <<stdin, files, call, key_order>>
  /\ pc = "w_win10"
  /\ win10_choice \subseteq 0..(Len(WIN10_APPS) - 1)
  /\ block_settings' =
       IF win10_blocks
         THEN [block_settings EXCEPT !.apps =
                 PushWin10(@, Ascending(win10_choice, 0, Len(WIN10_APPS)))]
         ELSE block_settings
  /\ pc' = "w_title_gate"
  /\ stdout' = <<>>
  /\ UNCHANGED <<list_of_blocks, block_name, final_schedule, cwd, original_curdir>>

\* "Do you want to block windows with certain titles?"
WizTitleGate(allow_window_title) ==
  Gate("w_title_gate", allow_window_title, "w_title", "w_sched_gate")

\* One turn of the window title loop (suggestdialog.rs 710-729)
WizTitle(window) ==
  /\ stdin = "open"
  /\ UNCHANGED <<stdin, files, call, key_order>>
  /\ pc = "w_title"
  /\ IF window = ""
       THEN /\ pc' = "w_sched_gate"
            /\ block_settings' = block_settings
       ELSE /\ Len(block_settings.apps) < MaxList
            /\ pc' = pc
            /\ block_settings' =
                 [block_settings EXCEPT !.apps = Append(@, <<"Title", window>>)]
  /\ stdout' = <<>>
  /\ UNCHANGED <<list_of_blocks, block_name, final_schedule, cwd, original_curdir>>

\* `Some(block_settings)` returned to suggest(), which inserts it
\* (suggestdialog.rs 169-171 and 186-188)
InsertBlock(map, name, bs) == MapInsert(map, name, bs)

ReturnSome(bs) ==
  /\ block_settings' = bs
  /\ list_of_blocks' = InsertBlock(list_of_blocks, block_name, bs)
  /\ key_order' \in KeyInsert(key_order, block_name)
  /\ pc' = "w_more"
  /\ stdout' = <<>>
  /\ UNCHANGED <<block_name, final_schedule, cwd, original_curdir>>

\* "Do you want to add a schedule to your blocks?" (suggestdialog.rs 732-746, 822-826)
WizSchedGate(schedule_block) ==
  /\ stdin = "open"
  /\ UNCHANGED <<stdin, files, call>>
  /\ pc = "w_sched_gate"
  /\ IF schedule_block
       THEN /\ block_settings' = [block_settings EXCEPT !.sched_type = "Scheduled"]
            /\ pc' = "w_sched"
            /\ stdout' = <<>>
            /\ UNCHANGED <<list_of_blocks, key_order, block_name, final_schedule,
                           cwd, original_curdir>>
       ELSE ReturnSome([block_settings EXCEPT !.sched_type = "Continuous"])

DayOfIndex(i) ==
  CASE i = 0 -> "Sun" [] i = 1 -> "Mon" [] i = 2 -> "Tue" [] i = 3 -> "Wed"
    [] i = 4 -> "Thu" [] i = 5 -> "Fri" [] i = 6 -> "Sat" [] OTHER -> "Sun"

\* time_of_week.into_iter().for_each(...) (suggestdialog.rs 796-820)
RECURSIVE PushScheduleBlocks(_, _, _, _, _)
PushScheduleBlocks(sched, time_of_week, start_time, end_time, break_type) ==
  IF time_of_week = <<>> THEN sched
  ELSE LET day_of_week == DayOfIndex(Head(time_of_week))
           block == [ id |-> Len(sched),
                      start_time |-> [day_of_week |-> day_of_week, time |-> start_time],
                      end_time |-> [day_of_week |-> day_of_week, time |-> end_time],
                      break_type |-> break_type ]
       IN PushScheduleBlocks(Append(sched, block), Tail(time_of_week),
                             start_time, end_time, break_type)

\* One turn of the schedule loop (suggestdialog.rs 747-821): "Do you want to
\* add new schedule blocks?", then the days, the two times and the break
WizSched(add_sched, days, start_time, end_time, break_choice) ==
  /\ stdin = "open"
  /\ UNCHANGED <<stdin, files, call>>
  /\ pc = "w_sched"
  /\ IF ~add_sched
       THEN ReturnSome(block_settings)
       ELSE /\ days \subseteq 0..6
            /\ Len(block_settings.schedule) + Cardinality(days) <= MaxSched
            /\ block_settings' =
                 [block_settings EXCEPT !.schedule =
                    PushScheduleBlocks(@, Ascending(days, 0, 7), start_time, end_time,
                                       break_method_from_stdin(break_choice))]
            /\ stdout' = <<>>
            /\ UNCHANGED <<list_of_blocks, key_order, pc, block_name, final_schedule,
                           cwd, original_curdir>>

\* "Do you want to add new blocks?" (suggestdialog.rs 173-192)
WizMore(continue_settings) == Gate("w_more", continue_settings, "w_name", "w_save_q")

\* the mutation: after a no the wizard asks for more blocks again
WizSaveQAsksAgain(save_to_file) == Gate("w_save_q", save_to_file, "w_save", "w_more")

\* "Do you want to save these settings in a .ctbbl file?" (suggestdialog.rs 194-204)
WizSaveQ(save_to_file) == Gate("w_save_q", save_to_file, "w_save", "w_end")

(***************************************************************************)
(* Inputs                                                                  *)
(***************************************************************************)
BlockNames == {"a", "b"}

\* <<start_time, end_time>> pairs typed at the schedule prompts
TimePairs == { <<<<22, 0>>, <<0, 0>>>>, <<<<10, 3>>, <<9, 0>>>> }

\* flags of one `add` line
FlagSets == { {"mon", "wed"}, {"wkend"} }

ScheduleBreaks == { <<"Nobreak">>, <<"Allowance", 100>> }

\* <<day, start_time, end_time, break_type>> of one `edit` line
EditInputs == { <<"Tue", <<9, 0>>, <<17, 0>>, <<"Pomodoro", 25, 5>>>> }

\* id lists of one `remove` line
IdLists ==
  UNION { [1..n -> 0..MaxSched] : n \in 0..MaxIds }

\* days ticked at the wizard's weekday MultiSelect
DayChoices == { {1, 3}, {6} }

BreakChoices == { <<0>>, <<1, 100>> }

\* names a Save can be given, with the extension the program appends
FileNames == {"mine.ctbbl", "ctk_7.ctbbl"}

\* no .ctbbl file in the working directory
NoFiles == [f \in FileNames |-> [exists |-> FALSE, content |-> <<>>]]

\* no helper function was called yet
NoCall == [fn |-> "none"]

EmptyMap == [k \in {} |-> k]

(***************************************************************************)
(* The schedule sub-session of the command session, entered by             *)
(* `new-block a` then `schedule a`.                                        *)
(***************************************************************************)
InitSchedule ==
  /\ list_of_blocks =
       [k \in {"a"} |-> [SuggestBlockSettingsNew EXCEPT !.sched_type = "Scheduled"]]
  /\ pc = "schedule"
  /\ block_name = "a"
  /\ block_settings = BlockSettingsNew
  /\ final_schedule = <<>>
  /\ cwd = Home
  /\ original_curdir = Home
  /\ stdout = <<>>
  /\ key_order = <<"a">>
  /\ stdin = "open"
  /\ files = NoFiles
  /\ call = NoCall

NextSchedule ==
  \/ \E tp \in TimePairs, flags \in FlagSets, b \in ScheduleBreaks :
       SchedAdd(tp[1], tp[2], flags, b)
  \/ \E id \in 0..MaxSched, e \in EditInputs : SchedEdit(id, e[1], e[2], e[3], e[4])
  \/ \E ids \in IdLists, all \in BOOLEAN : SchedRemove(ids, all)
  \/ SchedPrint
  \/ SchedDone

(***************************************************************************)
(* The wizard, from its first prompt.                                      *)
(***************************************************************************)
InitDialog ==
  /\ list_of_blocks = EmptyMap
  /\ pc = "w_name"
  /\ block_name = ""
  /\ block_settings = BlockSettingsNew
  /\ final_schedule = <<>>
  /\ cwd \in {Home, Odd, Gone}
  /\ original_curdir = Home
  /\ stdout = <<>>
  /\ key_order = <<>>
  /\ stdin = "open"
  /\ files = NoFiles
  /\ call = NoCall

\* A user who builds one block, takes no lock, no break and no targets,
\* and builds a schedule
NextDialogSched ==
  \/ WizName("a")
  \/ WizLock(<<0>>)
  \/ WizBreak(<<0>>)
  \/ WizWebGate(FALSE)
  \/ WizExcGate(FALSE)
  \/ WizAppGate(FALSE)
  \/ WizWin10(FALSE, {})
  \/ WizTitleGate(FALSE)
  \/ \E schedule_block \in BOOLEAN : WizSchedGate(schedule_block)
  \/ \E add_sched \in BOOLEAN, days \in DayChoices, tp \in TimePairs, b \in BreakChoices :
       WizSched(add_sched, days, tp[1], tp[2], b)
  \/ WizMore(FALSE)
  \/ WizSaveQ(FALSE)

\* the wizard started in an ordinary directory
InitDialogHome == InitDialog /\ cwd = Home

InitBuilder == InitSchedule \/ InitDialogHome

NextBuilder == NextSchedule \/ NextDialogSched

SpecBuilder == InitBuilder /\ [][NextBuilder]_vars

(***************************************************************************)
(* Properties of the schedule builders                                     *)
(***************************************************************************)
DialogPcs == {"w_name", "w_lock", "w_break", "w_web_gate", "w_web", "w_exc_gate",
              "w_exc", "w_app_gate", "w_browse", "w_win10", "w_title_gate",
              "w_title", "w_sched_gate", "w_sched", "w_more", "w_save_q",
              "w_save", "w_end", "w_panic"}

InDialog == pc \in DialogPcs

\* every schedule the session holds: the stored ones and the one being built
StoredSchedules == {list_of_blocks[k].schedule : k \in DOMAIN list_of_blocks}

CmdSchedules == IF InDialog THEN {} ELSE StoredSchedules \cup {final_schedule}

DialogSchedules == IF InDialog THEN StoredSchedules \cup {block_settings.schedule} ELSE {}

CmdEntries == UNION {Range(sched) : sched \in CmdSchedules}

DialogEntries == UNION {Range(sched) : sched \in DialogSchedules}

\* the times of day a session of this model can be given
InputTimes ==
  {tp[1] : tp \in TimePairs} \cup {tp[2] : tp \in TimePairs}
    \cup {e[2] : e \in EditInputs} \cup {e[3] : e \in EditInputs}

Midnight == <<0, 0>>

MinuteOfDay(t) == hour(t) * 60 + minute(t)

OrderOk(start_time, end_time) ==
  MinuteOfDay(end_time) > MinuteOfDay(start_time) \/ end_time = Midnight

\* "<day>,<hour>,<minute>"
TimeText(day, t) == to_string(day) \o "," \o to_string(hour(t)) \o "," \o to_string(minute(t))

DayIndex(day) ==
  CASE day = "Sun" -> 0 [] day = "Mon" -> 1 [] day = "Tue" -> 2 [] day = "Wed" -> 3
    [] day = "Thu" -> 4 [] day = "Fri" -> 5 [] day = "Sat" -> 6

\* C1: every schedule entry a builder holds ends strictly after it starts
\* on the same day, unless it ends at 00:00.
C1_EndAfterStart ==
  /\ \A b \in CmdEntries :
       \E d \in 0..6, st \in InputTimes, en \in InputTimes :
         /\ b.start_time = TimeText(d, st)
         /\ \E d2 \in 0..6 : b.end_time = TimeText(d2, en)
         /\ OrderOk(st, en)
  /\ \A b \in DialogEntries : OrderOk(b.start_time.time, b.end_time.time)

\* C2: an entry that ends at 00:00 ends on the day after its start day
\* (mod 7); any other entry ends on its start day.
C2_MidnightRollsDay ==
  /\ \A b \in CmdEntries :
       \E d \in 0..6, st \in InputTimes, en \in InputTimes :
         /\ b.start_time = TimeText(d, st)
         /\ b.end_time = TimeText(IF en = Midnight THEN (d + 1) % 7 ELSE d, en)
  /\ \A b \in DialogEntries :
       DayIndex(b.end_time.day_of_week) =
         IF b.end_time.time = Midnight
           THEN (DayIndex(b.start_time.day_of_week) + 1) % 7
           ELSE DayIndex(b.start_time.day_of_week)

\* C3: the minute of the start and of the end of every schedule entry is a
\* multiple of 5.
C3_MinutesMultipleOf5 ==
  /\ \A b \in CmdEntries :
       \E d \in 0..6, d2 \in 0..6, st \in InputTimes, en \in InputTimes :
         /\ b.start_time = TimeText(d, st)
         /\ b.end_time = TimeText(d2, en)
         /\ minute(st) % 5 = 0
         /\ minute(en) % 5 = 0
  /\ \A b \in DialogEntries :
       minute(b.start_time.time) % 5 = 0 /\ minute(b.end_time.time) % 5 = 0

\* C4: in every schedule of either builder the entry at position i has id i
\* (positions from 0): the ids are 0..n-1.
C4_IdsArePositions ==
  \A sched \in CmdSchedules \cup DialogSchedules :
    \A i \in 1..Len(sched) : sched[i].id = i - 1

\* a Remove of entry 0 has run and left entries behind
C4_Witness ==
  /\ pc = "schedule"
  /\ stdout = <<"Deleted schedule blocks " \o to_string(0)>>
  /\ Len(final_schedule) >= 2

(***************************************************************************)
(* The command session, from its first prompt.                             *)
(***************************************************************************)
InitSuggest ==
  /\ list_of_blocks = EmptyMap
  /\ pc = "suggest"
  /\ block_name = ""
  /\ block_settings = BlockSettingsNew
  /\ final_schedule = <<>>
  /\ cwd = Home
  /\ original_curdir = Home
  /\ stdout = <<>>
  /\ key_order = <<>>
  /\ stdin = "open"
  /\ files = NoFiles
  /\ call = NoCall

LockMethods == {"None", "Random", "Range", "Restart", "Password"}

\* lock_method arguments of `config` lines, with what the password prompt returns
ConfigInputs ==
  { <<"Random", 999>>, <<"Random", 1000>>,
    <<"Range", <<8, 30>>, <<12, 5>>, TRUE>>,
    <<"Restart", FALSE>>, <<"Restart", TRUE>>,
    <<"Password", <<"Ok", "hunter2">>>>, <<"Password", <<"Err">>>> }

\* A user who creates block "a" and locks, unlocks and configures "a" and "b"
NextLock ==
  \/ NewBlock("a")
  \/ \E name \in BlockNames : Unlock(name)
  \/ \E name \in BlockNames, lock_method \in LockMethods : Lock(name, lock_method)
  \/ \E name \in BlockNames, lock_method \in ConfigInputs, lock \in BOOLEAN :
       Config(name, lock_method, lock)

SpecLock == InitSuggest /\ [][NextLock]_vars

AllowanceInputs == {0, 99, 100}

PomodoroInputs == { <<25, 5>>, <<100, 5>> }

\* A user who creates blocks and sets their break policy
NextBreak ==
  \/ \E name \in BlockNames : NewBlock(name)
  \/ \E name \in BlockNames : RemoveBlock(name)
  \/ \E name \in BlockNames : Nobreak(name)
  \/ \E name \in BlockNames, allowance_minutes \in AllowanceInputs :
       Allowance(name, allowance_minutes)
  \/ \E name \in BlockNames, p \in PomodoroInputs : Pomodoro(name, p[1], p[2])

SpecBreak == InitSuggest /\ [][NextBreak]_vars

(***************************************************************************)
(* Properties of the lock and break settings                               *)
(***************************************************************************)
\* the field a `config` of each method writes
ConfigField(method) ==
  CASE method = "Random" -> "random_text_length"
    [] method = "Range" -> "window"
    [] method = "Restart" -> "restart_unblock"
    [] method = "Password" -> "password"

MethodFields == {"random_text_length", "window", "restart_unblock", "password"}

KeepsFields(name, fields) ==
  \A f \in fields : list_of_blocks'[name][f] = list_of_blocks[name][f]

\* C5: a Lock, Unlock or Config --lock on an existing block leaves the block
\* with one lock method out of the five, and changes no method-specific
\* field other than the one a Config names.
C5_SwitchKeepsFields ==
  [][\A name \in DOMAIN list_of_blocks :
       /\ (Unlock(name) \/ \E m \in LockMethods : Lock(name, m)) =>
            /\ list_of_blocks'[name].lock \in LockMethods
            /\ KeepsFields(name, MethodFields)
       /\ \A c \in ConfigInputs :
            Config(name, c, TRUE) =>
              /\ list_of_blocks'[name].lock = c[1]
              /\ KeepsFields(name, MethodFields \ {ConfigField(c[1])})]_vars

\* a block was unlocked while every method-specific field held a value
\* other than its default
C5_Witness ==
  \E name \in DOMAIN list_of_blocks :
    /\ stdout = <<"Block " \o name \o " unlocked">>
    /\ list_of_blocks[name].lock = "None"
    /\ \A f \in MethodFields : list_of_blocks[name][f] # SuggestBlockSettingsNew[f]

\* C7: the random text length stored for any block is within 0..999.
C7_LengthWithinBounds ==
  IF InDialog
    THEN /\ \A k \in DOMAIN list_of_blocks : list_of_blocks[k].random_text_length \in 0..999
         /\ block_settings.random_text_length \in 0..999
    ELSE \A k \in DOMAIN list_of_blocks :
           \E n \in 0..999 : list_of_blocks[k].random_text_length = to_string(n)

BreakMinutes == 0..99

BreakTextOk(text) ==
  \/ text = "none"
  \/ \E m \in BreakMinutes : text = to_string(m)
  \/ \E m \in BreakMinutes, n \in BreakMinutes : text = to_string(m) \o "," \o to_string(n)

BreakMethodOk(b) ==
  CASE b[1] = "Allowance" -> b[2] \in BreakMinutes
    [] b[1] = "Pomodoro" -> b[2] \in BreakMinutes /\ b[3] \in BreakMinutes
    [] OTHER -> TRUE

\* C8: every break policy stored for a block or a schedule entry has its
\* minutes within 0..99.
C8_BreakMinutesWithinBounds ==
  IF InDialog
    THEN /\ \A k \in DOMAIN list_of_blocks : BreakMethodOk(list_of_blocks[k].break_type)
         /\ BreakMethodOk(block_settings.break_type)
         /\ \A b \in DialogEntries : BreakMethodOk(b.break_type)
    ELSE /\ \A k \in DOMAIN list_of_blocks : BreakTextOk(list_of_blocks[k].break_type)
         /\ \A b \in CmdEntries : BreakTextOk(b.break_type)

(***************************************************************************)
(* Wizard sessions                                                         *)
(***************************************************************************)
\* A user who builds blocks "a" and "b", any number of times each, choosing
\* only a lock method
NextDialogNames ==
  \/ \E name \in BlockNames : WizName(name)
  \/ \E choice \in { <<0>>, <<3, FALSE>> } : WizLock(choice)
  \/ WizBreak(<<0>>)
  \/ WizWebGate(FALSE)
  \/ WizExcGate(FALSE)
  \/ WizAppGate(FALSE)
  \/ WizWin10(FALSE, {})
  \/ WizTitleGate(FALSE)
  \/ WizSchedGate(FALSE)
  \/ \E continue_settings \in BOOLEAN : WizMore(continue_settings)
  \/ WizSaveQ(FALSE)

SpecDialogNames == InitDialogHome /\ [][NextDialogNames]_vars

\* command lines typed at the browser prompt, after shlex::split
CdLines == { <<"cd">>, <<"cd", Apps>>, <<"cd", OddLink>>, <<"cd", Nowhere>> }

LsLines == { <<"ls">>, <<"ls", Apps>>, <<"ls", Nowhere>> }

DoneLines == { <<"done">>, <<"quit">>, <<"q">> }

OtherLines == { <<"help">> }

\* what the MultiSelect of ls returns
Selections == { <<"Ok", {}>>, <<"Ok", {0}>>, <<"Ok", {0, 1}>>, <<"Err">> }

\* A user who builds block "a", any number of times, choosing only
\* filesystem targets
NextDialogBrowse ==
  \/ WizName("a")
  \/ WizLock(<<3, FALSE>>)
  \/ WizBreak(<<0>>)
  \/ WizWebGate(FALSE)
  \/ WizExcGate(FALSE)
  \/ \E app_block \in BOOLEAN : WizAppGate(app_block)
  \/ BrowseReadErr
  \/ BrowseUnparsed
  \/ BrowseEmpty
  \/ \E line \in CdLines : BrowseCd(line)
  \/ \E line \in LsLines, selection \in Selections : BrowseLs(line, selection)
  \/ \E line \in DoneLines : BrowseDone(line)
  \/ \E line \in OtherLines : BrowseOther(line)
  \/ WizWin10(FALSE, {})
  \/ WizTitleGate(FALSE)
  \/ WizSchedGate(FALSE)
  \/ \E continue_settings \in BOOLEAN : WizMore(continue_settings)
  \/ WizSaveQ(FALSE)

SpecDialogBrowse == InitDialog /\ [][NextDialogBrowse]_vars

\* C6: when the browsing stage ends (done/quit/q, failed read, error exit)
\* the working directory is the one recorded when browsing began.
C6_BrowseRestoresCwd ==
  [][(pc = "w_browse" /\ pc' \notin {"w_browse", "w_panic"}) =>
       cwd' = original_curdir]_vars

\* C9: a policy in the PolicySet is never replaced or altered, and a block
\* name that is already a key is not accepted as the name of a new policy.
C9_InsertedPolicyImmutable ==
  [][/\ \A k \in DOMAIN list_of_blocks :
          k \in DOMAIN list_of_blocks' /\ list_of_blocks'[k] = list_of_blocks[k]
     /\ (pc = "w_name" /\ pc' = "w_lock") => block_name' \notin DOMAIN list_of_blocks]_vars

\* C10: when the working directory cannot be determined at the filesystem
\* stage, the wizard goes on to the system-app stage with the policy under
\* construction intact and without filesystem targets.
C10_CwdFailureSkipsStageOnly ==
  [][(/\ pc = "w_app_gate"
      /\ ~(current_dir_is_ok(cwd) /\ to_str_is_some(cwd))
      /\ pc' # pc) =>
       /\ pc' = "w_win10"
       /\ block_settings' = block_settings
       /\ block_settings'.apps = <<>>]_vars

(***************************************************************************)
(* What the command session shows of a password                            *)
(***************************************************************************)
\* what rpassword::prompt_password returns
PasswordInputs == { <<"Ok", "hunter2">>, <<"Ok", "letmein">>, <<"Err">> }

\* A user who creates blocks, gives "a" a password and looks at the result
NextOutput ==
  \/ \E name \in BlockNames : NewBlock(name)
  \/ \E r \in PasswordInputs, lock \in BOOLEAN : Config("a", <<"Password", r>>, lock)
  \/ \E name \in BlockNames : Settings(name)
  \/ \E verbose \in BOOLEAN : List(verbose)

SpecOutput == InitSuggest /\ [][NextOutput]_vars

\* The session that was given the same lines and the other password text:
\* no handler branches on the text of a password, so its map is this one
\* with the other text in each password that was entered.
TwinPassword(password) ==
  IF password = "hunter2" THEN "letmein"
  ELSE IF password = "letmein" THEN "hunter2"
  ELSE password

TwinMap(map) ==
  [k \in DOMAIN map |-> [map[k] EXCEPT !.password = TwinPassword(@)]]

\* C11: the password of a block is never shown: what Settings and
\* List --verbose print is what they print in the session that differs only
\* in the password text entered.
C11_OutputIndependentOfPassword ==
  [][/\ \A name \in BlockNames :
          Settings(name) => stdout' = SettingsLines(TwinMap(list_of_blocks), name)
     /\ List(TRUE) => stdout' = ListLines(TwinMap(list_of_blocks), key_order, TRUE)]_vars

(***************************************************************************)
(* The schedule kind of a block of the command session                     *)
(***************************************************************************)
\* A user who creates block "a", schedules it and makes it continuous, in
\* any order and any number of times
NextKind ==
  \/ NewBlock("a")
  \/ \E name \in BlockNames : Schedule(name)
  \/ \E tp \in TimePairs, flags \in FlagSets, b \in ScheduleBreaks :
       SchedAdd(tp[1], tp[2], flags, b)
  \/ SchedDone
  \/ \E name \in BlockNames : Continuous(name)

SpecKind == InitSuggest /\ [][NextKind]_vars

\* C12: a block whose schedule list is not empty has schedule kind Scheduled.
C12_ScheduleOnlyWhenScheduled ==
  \A k \in DOMAIN list_of_blocks :
    list_of_blocks[k].schedule # <<>> => list_of_blocks[k].sched_type = "Scheduled"

(***************************************************************************)
(* One prompt answered through loop_interact                               *)
(***************************************************************************)
InitPrompt ==
  /\ list_of_blocks = EmptyMap
  /\ pc = "dialogue"
  /\ block_name = ""
  /\ block_settings = BlockSettingsNew
  /\ final_schedule = <<>>
  /\ cwd = Home
  /\ original_curdir = Home
  /\ stdout = <<>>
  /\ key_order = <<>>
  /\ stdin = "open"
  /\ files = NoFiles
  /\ call = LoopInteract

\* what one attempt of interact() can return
DialogueResults ==
  { <<"Ok", "yes">>, <<"Ok", "no">>,
    <<"Err", "read interrupted">>, <<"Err", "not a terminal">> }

NextPrompt == \E result \in DialogueResults : looped_dialoguer(result)

SpecPrompt == InitPrompt /\ [][NextPrompt]_vars

\* C13: loop_interact hands back the value of the first successful attempt;
\* every attempt before it failed, a failed attempt leaves the prompt asking
\* again, and nothing is handed back while no attempt succeeded.
C13_ReturnsFirstSuccess ==
  LET attempts == call.attempts
      n == Len(attempts)
  IN /\ \A i \in 1..(n - 1) : attempts[i][1] = "Err"
     /\ pc = "returned" =>
          /\ n >= 1
          /\ attempts[n][1] = "Ok"
          /\ call.returned = <<attempts[n][2]>>
     /\ (n >= 1 /\ attempts[n][1] = "Err") => pc = "dialogue"
     /\ pc = "dialogue" => call.returned = <<>>

\* the prompt was answered at the third attempt
C13_Witness ==
  /\ pc = "returned"
  /\ Len(call.attempts) = 3
  /\ call.returned = <<"no">>

(***************************************************************************)
(* The command session whose input stream ends                             *)
(***************************************************************************)
\* A user who creates block "a", schedules it, may quit, and whose input
\* stream may end at any prompt
NextEof ==
  \/ NewBlock("a")
  \/ \E name \in BlockNames : Schedule(name)
  \/ \E tp \in TimePairs, flags \in FlagSets, b \in ScheduleBreaks :
       SchedAdd(tp[1], tp[2], flags, b)
  \/ SchedDone
  \/ Quit
  \/ CloseStdin
  \/ SuggestEof
  \/ ScheduleEof

SpecEof == InitSuggest /\ [][NextEof]_vars

\* C14: a prompt that reads the end of the input stream ends the session;
\* no command loop goes back to its prompt at end of input.
C14_EofEndsSession ==
  [][stdin = "eof" => pc' \in {"quit", "panic"}]_vars

(***************************************************************************)
(* Saving the PolicySet                                                    *)
(***************************************************************************)
\* blocksettings.rs 35-49
BreakMethodJson(b) ==
  CASE b[1] = "Allowance" -> to_string(b[2])
    [] b[1] = "Pomodoro" -> to_string(b[2]) \o "," \o to_string(b[3])
    [] OTHER -> "none"

\* blocksettings.rs 147-160
RangeWindowJson(w) ==
  (IF w.lock_range THEN "" ELSE "un") \o "lock@"
    \o to_string(hour(w.start_time)) \o "," \o to_string(minute(w.start_time)) \o "@"
    \o to_string(hour(w.end_time)) \o "," \o to_string(minute(w.end_time))

\* the text of a path: its pieces one after the other
PathText(path) == Join(path, "")

\* blocksettings.rs 162-181
AppStringJson(app) ==
  CASE app[1] = "File" -> "file:" \o PathText(ReplaceBackslash(app[2]))
    [] app[1] = "Folder" -> "folder:" \o PathText(ReplaceBackslash(app[2]))
    [] app[1] = "Win10" -> "win10:" \o app[2]
    [] OTHER -> "title:" \o app[2]

\* blocksettings.rs 220-223
u16_str_serialize(num) == Quote(to_string(num))

\* blocksettings.rs 225-228
usize_str_serialize(num) == Quote(to_string(num))

\* blocksettings.rs 51-60; the times are written "<day>,<hour>,<minute>"
\* (blocksettings.rs 79-95 and 107-113)
WizScheduleBlockJson(b) ==
  "{\"id\":" \o usize_str_serialize(b.id)
    \o ",\"startTime\":"
    \o Quote(TimeText(DayIndex(b.start_time.day_of_week), b.start_time.time))
    \o ",\"endTime\":"
    \o Quote(TimeText(DayIndex(b.end_time.day_of_week), b.end_time.time))
    \o ",\"break\":" \o Quote(BreakMethodJson(b.break_type)) \o "}"

\* blocksettings.rs 115-123, rename_all = "camelCase"; the wizard's Random
\* and Range are the variants RandomText and Window of this enum
WizLockMethodJson(lock) ==
  CASE lock = "None" -> "none"
    [] lock = "Random" -> "randomText"
    [] lock = "Range" -> "window"
    [] lock = "Restart" -> "restart"
    [] OTHER -> "password"

\* blocksettings.rs 4-26
WizBlockSettingsJson(bs) ==
  "{\"type\":" \o Quote(SchedTypeJson(bs.sched_type))
    \o ",\"lock\":" \o Quote(WizLockMethodJson(bs.lock))
    \o ",\"lockUnblock\":" \o Quote(bool_to_string(bs.lock_unblock))
    \o ",\"restartUnblock\":" \o Quote(bool_to_string(bs.restart_unblock))
    \o ",\"password\":" \o Quote(bs.password)
    \o ",\"randomTextLength\":" \o u16_str_serialize(bs.random_text_length)
    \o ",\"break\":" \o Quote(BreakMethodJson(bs.break_type))
    \o ",\"window\":" \o Quote(RangeWindowJson(bs.window))
    \o ",\"users\":" \o Quote(bs.users)
    \o ",\"web\":" \o JsonStrings(bs.web)
    \o ",\"exceptions\":" \o JsonStrings(bs.exceptions)
    \o ",\"apps\":"
    \o JsonStrings([i \in 1..Len(bs.apps) |-> AppStringJson(bs.apps[i])])
    \o ",\"schedule\":["
    \o Join([i \in 1..Len(bs.schedule) |-> WizScheduleBlockJson(bs.schedule[i])], ",")
    \o "],\"customUsers\":" \o JsonStrings(bs.custom_users) \o "}"

WizPieces(map, order) ==
  MapPieces([k \in DOMAIN map |-> WizBlockSettingsJson(map[k])], order)

\* the name of the file (suggest.rs 601-607, suggestdialog.rs 217-222).
\* file_name is <<"Some", name>> or <<"None">>; num is the random u64
FinalFile(file_name, num) ==
  IF file_name[1] = "Some" THEN file_name[2] \o ".ctbbl"
  ELSE "ctk_" \o to_string(num) \o ".ctbbl"

\* File::create then serde_json::to_writer_pretty (suggest.rs 612-622,
\* suggestdialog.rs 226-236).  create is <<"Ok">> or <<"Err", why>>: a
\* failed create leaves the directory as it was, a successful one leaves
\* an empty file of that name, whatever it held.  write is <<"Ok">> or
\* <<"Err", k, why>>: the writer failed after k pieces went to the file.
SaveTo(final_file, pieces, create, write) ==
  /\ final_file \in DOMAIN files
  /\ IF create[1] = "Err"
       THEN /\ files' = files
            /\ stdout' = <<"Could not create " \o final_file \o ": " \o create[2]>>
       ELSE IF write[1] = "Ok"
         THEN /\ files' = [files EXCEPT ![final_file] =
                             [exists |-> TRUE, content |-> pieces]]
              /\ stdout' = <<"Successfully saved to " \o final_file
                               \o " in current directory">>
         ELSE /\ write[2] < Len(pieces)
              /\ files' = [files EXCEPT ![final_file] =
                             [exists |-> TRUE, content |-> SubSeq(pieces, 1, write[2])]]
              /\ stdout' = <<"Could not write to " \o final_file \o ": " \o write[3]>>

\* the mutation: the command session ends when the file cannot be saved
SaveQuitsOnFailure(file_name, num, create, write) ==
  /\ stdin = "open"
  /\ pc = "suggest"
  /\ SaveTo(FinalFile(file_name, num), SuggestPieces(list_of_blocks, key_order),
            create, write)
  /\ pc' = IF create[1] = "Err" \/ write[1] = "Err" THEN "quit" ELSE pc
  /\ UNCHANGED <<list_of_blocks, key_order, SuggestFrame, stdin, call>>

\* Suggest::Save (suggest.rs 600-623)
Save(file_name, num, create, write) ==
  /\ stdin = "open"
  /\ pc = "suggest"
  /\ SaveTo(FinalFile(file_name, num), SuggestPieces(list_of_blocks, key_order),
            create, write)
  /\ UNCHANGED <<list_of_blocks, key_order, pc, SuggestFrame, stdin, call>>

\* The save stage of the wizard (suggestdialog.rs 204-237): the file name
\* typed, empty for a random name; suggest() returns after it
WizSave(file_name, num, create, write) ==
  /\ stdin = "open"
  /\ pc = "w_save"
  /\ SaveTo(FinalFile(IF file_name # "" THEN <<"Some", file_name>> ELSE <<"None">>, num),
            WizPieces(list_of_blocks, key_order), create, write)
  /\ pc' = "w_end"
  /\ UNCHANGED <<list_of_blocks, key_order, SuggestFrame, stdin, call>>


\* the random number of a file name
RandomNums == {7}

\* file names given to `save`, and typed at the wizard's prompt
SaveNames == { <<"Some", "mine">>, <<"None">> }

TypedNames == {"mine", ""}

\* results of File::create
CreateResults == { <<"Ok">>, <<"Err", "Permission denied (os error 13)">> }

\* results of serde_json::to_writer_pretty
WriteResults ==
  { <<"Ok">> } \cup
  { <<"Err", k, "No space left on device (os error 28)">> : k \in 0..2 }

\* A user of the command session who creates blocks, lists and saves them
NextSaveCommands ==
  \/ \E name \in BlockNames : NewBlock(name)
  \/ \E verbose \in BOOLEAN : List(verbose)
  \/ \E file_name \in SaveNames, num \in RandomNums,
        create \in CreateResults, write \in WriteResults :
       Save(file_name, num, create, write)

\* A user of the wizard who builds blocks with default answers and saves
NextSaveDialog ==
  \/ \E name \in BlockNames : WizName(name)
  \/ WizLock(<<0>>)
  \/ WizBreak(<<0>>)
  \/ WizWebGate(FALSE)
  \/ WizExcGate(FALSE)
  \/ WizAppGate(FALSE)
  \/ WizWin10(FALSE, {})
  \/ WizTitleGate(FALSE)
  \/ WizSchedGate(FALSE)
  \/ \E continue_settings \in BOOLEAN : WizMore(continue_settings)
  \/ \E save_to_file \in BOOLEAN : WizSaveQ(save_to_file)
  \/ \E file_name \in TypedNames, num \in RandomNums,
        create \in CreateResults, write \in WriteResults :
       WizSave(file_name, num, create, write)

InitSave == InitSuggest \/ InitDialogHome

NextSave == NextSaveCommands \/ NextSaveDialog

SpecSave == InitSave /\ [][NextSave]_vars

\* a Save of the command session that reports a failure
FailedSave ==
  \E file_name \in SaveNames, num \in RandomNums,
     create \in CreateResults, write \in WriteResults :
    /\ create[1] = "Err" \/ write[1] = "Err"
    /\ Save(file_name, num, create, write)

\* a save of the wizard that reports a failure
FailedWizSave ==
  \E file_name \in TypedNames, num \in RandomNums,
     create \in CreateResults, write \in WriteResults :
    /\ create[1] = "Err" \/ write[1] = "Err"
    /\ WizSave(file_name, num, create, write)

PolicySetKept == list_of_blocks' = list_of_blocks /\ key_order' = key_order

\* C15, as claimed: a Save that fails leaves the PolicySet as it was and the
\* session goes on accepting commands, another Save among them.
C15_FailedSaveKeepsSession ==
  [][(FailedSave \/ FailedWizSave) =>
       /\ PolicySetKept
       /\ pc' = pc
       /\ pc' \notin {"quit", "panic", "w_end", "w_panic"}]_vars

\* C15, amended: a save that fails leaves the PolicySet as it was; the
\* command session is back at its prompt, where another Save can be given;
\* the wizard, whose save is its last step, ends.
C15_FailedSaveKeepsPolicySet ==
  [][/\ FailedSave => PolicySetKept /\ pc' = "suggest" /\ stdin' = "open"
     /\ FailedWizSave => PolicySetKept /\ pc' = "w_end"]_vars

\* the command session after a Save that could not write its file
C15_Witness ==
  /\ pc = "suggest"
  /\ stdout = <<"Could not write to mine.ctbbl: No space left on device (os error 28)">>
  /\ DOMAIN list_of_blocks = {"a", "b"}

\* the text pieces of the PolicySet of the running session
SessionPieces ==
  IF InDialog THEN WizPieces(list_of_blocks, key_order)
  ELSE SuggestPieces(list_of_blocks, key_order)

\* C16: after a step of the session every output file is as it was before
\* the step or holds the complete serialization of the PolicySet.
C16_NeverPartiallyPersisted ==
  [][\A f \in FileNames :
       \/ files'[f] = files[f]
       \/ files'[f].exists /\ files'[f].content = SessionPieces]_vars

\* a Save of the command session that reports success for file f
SavedTo(f) ==
  \E file_name \in SaveNames, num \in RandomNums :
    /\ FinalFile(file_name, num) = f
    /\ Save(file_name, num, <<"Ok">>, <<"Ok">>)

AnySave ==
  \E file_name \in SaveNames, num \in RandomNums,
     create \in CreateResults, write \in WriteResults :
    Save(file_name, num, create, write)

AnyWizSave ==
  \E file_name \in TypedNames, num \in RandomNums,
     create \in CreateResults, write \in WriteResults :
    WizSave(file_name, num, create, write)

\* C17: List --verbose and Save leave the PolicySet as it was, and the text
\* serialized right after a List --verbose, by List --verbose again or by a
\* successful Save, is the text that List --verbose printed.
C17_SerializationRepeatable ==
  [][/\ (List(TRUE) \/ AnySave \/ AnyWizSave) => PolicySetKept
     /\ (~InDialog /\ stdout = ListLines(list_of_blocks, key_order, TRUE)) =>
          /\ List(TRUE) => stdout' = stdout
          /\ \A f \in FileNames :
               SavedTo(f) => <<Join(files'[f].content, "")>> = stdout]_vars

\* two blocks were listed with --verbose and a file holds the text listed
C17_Witness ==
  /\ pc = "suggest"
  /\ DOMAIN list_of_blocks = {"a", "b"}
  /\ stdout = ListLines(list_of_blocks, key_order, TRUE)
  /\ \E f \in FileNames : files[f].exists /\ <<Join(files[f].content, "")>> = stdout

(***************************************************************************)
(* convert.rs: str_to_time and str_to_date.  The text to parse is the      *)
(* sequence of its characters; a month name is two pieces, its first       *)
(* three letters and the rest.  chrono's parser is modelled for the items  *)
(* the twelve patterns use: a number skips leading blanks and takes up to  *)
(* its width in digits, a blank of the pattern skips any blanks, a literal *)
(* must be next, text left over is an error, and the fields are checked    *)
(* for their ranges when the value is built.                               *)
(***************************************************************************)
ParseErr(kind) == <<"Err", kind>>

IsDigit(c) == \E d \in 1..10 : Digits[d] = c

DigitValue(c) == (CHOOSE d \in 1..10 : Digits[d] = c) - 1

RECURSIVE TrimLeft(_)
TrimLeft(s) == IF s # <<>> /\ Head(s) = " " THEN TrimLeft(Tail(s)) ELSE s

\* how many of the first `max` characters are digits
RECURSIVE LeadingDigits(_, _)
LeadingDigits(s, max) ==
  IF max = 0 \/ s = <<>> THEN 0
  ELSE IF ~IsDigit(Head(s)) THEN 0
  ELSE 1 + LeadingDigits(Tail(s), max - 1)

RECURSIVE NumberValue(_, _, _)
NumberValue(s, n, acc) ==
  IF n = 0 THEN acc ELSE NumberValue(Tail(s), n - 1, acc * 10 + DigitValue(Head(s)))

\* the fields chrono collects; -1 is a field that was not set
NoneParsed ==
  [hour_div_12 |-> -1, hour_mod_12 |-> -1, minute |-> -1,
   year |-> -1, month |-> -1, day |-> -1]

Width(field) == IF field = "year" THEN 4 ELSE 2

\* Parsed::set_hour, set_hour12, set_minute, set_year, set_month, set_day
SetField(parsed, field, v) ==
  CASE field = "hour" ->
         <<"Ok", [parsed EXCEPT !.hour_div_12 = v \div 12, !.hour_mod_12 = v % 12]>>
    [] field = "hour12" ->
         IF v < 1 \/ v > 12 THEN ParseErr("OutOfRange")
         ELSE <<"Ok", [parsed EXCEPT !.hour_mod_12 = v % 12]>>
    [] field = "minute" -> <<"Ok", [parsed EXCEPT !.minute = v]>>
    [] field = "year" -> <<"Ok", [parsed EXCEPT !.year = v]>>
    [] field = "month" -> <<"Ok", [parsed EXCEPT !.month = v]>>
    [] OTHER -> <<"Ok", [parsed EXCEPT !.day = v]>>

Lower(c) ==
  CASE c = "A" -> "a" [] c = "P" -> "p" [] c = "M" -> "m" [] OTHER -> c

\* first three letters and rest of the month names
MonthNames ==
  << <<"Jan", "uary">>, <<"Feb", "ruary">>, <<"Mar", "ch">>, <<"Apr", "il">>,
     <<"May", "">>, <<"Jun", "e">>, <<"Jul", "y">>, <<"Aug", "ust">>,
     <<"Sep", "tember">>, <<"Oct", "ober">>, <<"Nov", "ember">>, <<"Dec", "ember">> >>

\* One item of a pattern applied to the text s: <<"Ok", text left, fields>>
\* or <<"Err", kind>>
ParseItem(item, s, parsed) ==
  CASE item[1] = "Literal" ->
         IF s = <<>> THEN ParseErr("TooShort")
         ELSE IF Head(s) # item[2] THEN ParseErr("Invalid")
         ELSE <<"Ok", Tail(s), parsed>>
    [] item[1] = "Space" -> <<"Ok", TrimLeft(s), parsed>>
    [] item[1] = "Numeric" ->
         LET t == TrimLeft(s)
             n == LeadingDigits(t, Width(item[2]))
         IN IF t = <<>> THEN ParseErr("TooShort")
            ELSE IF n = 0 THEN ParseErr("Invalid")
            ELSE LET set == SetField(parsed, item[2], NumberValue(t, n, 0))
                 IN IF set[1] = "Err" THEN set
                    ELSE <<"Ok", SubSeq(t, n + 1, Len(t)), set[2]>>
    [] item[1] = "AmPm" ->
         IF Len(s) < 2 THEN ParseErr("TooShort")
         ELSE IF Lower(s[1]) \in {"a", "p"} /\ Lower(s[2]) = "m"
           THEN <<"Ok", SubSeq(s, 3, Len(s)),
                  [parsed EXCEPT !.hour_div_12 = IF Lower(s[1]) = "p" THEN 1 ELSE 0]>>
           ELSE ParseErr("Invalid")
    [] OTHER ->
         IF s = <<>> THEN ParseErr("TooShort")
         ELSE IF \A m \in 1..12 : MonthNames[m][1] # Head(s) THEN ParseErr("Invalid")
         ELSE LET m == CHOOSE m \in 1..12 : MonthNames[m][1] = Head(s)
                  rest == Tail(s)
              IN <<"Ok",
                   IF rest # <<>> /\ Head(rest) = MonthNames[m][2] THEN Tail(rest) ELSE rest,
                   [parsed EXCEPT !.month = m]>>

\* the items of a pattern in order, then the test for text left over
RECURSIVE ParseItems(_, _, _)
ParseItems(items, s, parsed) ==
  IF items = <<>>
    THEN IF s # <<>> THEN ParseErr("TooLong") ELSE <<"Ok", parsed>>
    ELSE LET r == ParseItem(Head(items), s, parsed)
         IN IF r[1] = "Err" THEN r ELSE ParseItems(Tail(items), r[2], r[3])

Num(field) == <<"Numeric", field>>
Lit(c) == <<"Literal", c>>

\* StrftimeItems: %k parses as %H, %l as %I, %e as %d and %P as %p (the
\* padding and the case only matter when formatting); %F is %Y-%m-%d
StrftimeItems(fmt) ==
  CASE fmt \in {"%H:%M", "%k:%M"} -> <<Num("hour"), Lit(":"), Num("minute")>>
    [] fmt \in {"%I:%M%P", "%I:%M%p", "%l:%M%P", "%l:%M%p"} ->
         <<Num("hour12"), Lit(":"), Num("minute"), <<"AmPm">>>>
    [] fmt \in {"%d %B %Y", "%e %B %Y"} ->
         <<Num("day"), <<"Space">>, <<"Month">>, <<"Space">>, Num("year")>>
    [] fmt \in {"%B %d %Y", "%B %e %Y"} ->
         <<<<"Month">>, <<"Space">>, Num("day"), <<"Space">>, Num("year")>>
    [] fmt = "%F" -> <<Num("year"), Lit("-"), Num("month"), Lit("-"), Num("day")>>
    [] OTHER -> <<Num("day"), Lit("/"), Num("month"), Lit("/"), Num("year")>>

\* Parsed::to_naive_time
to_naive_time(parsed) ==
  IF parsed.hour_div_12 = -1 THEN ParseErr("NotEnough")
  ELSE IF parsed.hour_div_12 > 1 THEN ParseErr("OutOfRange")
  ELSE IF parsed.hour_mod_12 = -1 THEN ParseErr("NotEnough")
  ELSE IF parsed.hour_mod_12 > 11 THEN ParseErr("OutOfRange")
  ELSE IF parsed.minute = -1 THEN ParseErr("NotEnough")
  ELSE IF parsed.minute > 59 THEN ParseErr("OutOfRange")
  ELSE <<"Ok", <<parsed.hour_div_12 * 12 + parsed.hour_mod_12, parsed.minute>>>>

DaysInMonth(year, month) ==
  IF month = 2
    THEN IF year % 4 = 0 /\ (year % 100 # 0 \/ year % 400 = 0) THEN 29 ELSE 28
  ELSE IF month \in {4, 6, 9, 11} THEN 30 ELSE 31

\* Parsed::to_naive_date
to_naive_date(parsed) ==
  IF parsed.year = -1 \/ parsed.month = -1 \/ parsed.day = -1
    THEN ParseErr("NotEnough")
  ELSE IF \/ parsed.month < 1 \/ parsed.month > 12
          \/ parsed.day < 1 \/ parsed.day > DaysInMonth(parsed.year, parsed.month)
    THEN ParseErr("OutOfRange")
  ELSE <<"Ok", <<parsed.year, parsed.month, parsed.day>>>>

\* NaiveTime::parse_from_str
NaiveTimeParse(s, fmt) ==
  LET r == ParseItems(StrftimeItems(fmt), s, NoneParsed)
  IN IF r[1] = "Err" THEN r ELSE to_naive_time(r[2])

\* NaiveDate::parse_from_str
NaiveDateParse(s, fmt) ==
  LET r == ParseItems(StrftimeItems(fmt), s, NoneParsed)
  IN IF r[1] = "Err" THEN r ELSE to_naive_date(r[2])


\* ALLOWED_PARSE of str_to_time
ALLOWED_PARSE_TIME == <<"%H:%M", "%k:%M", "%I:%M%P", "%I:%M%p", "%l:%M%P", "%l:%M%p">>

\* ALLOWED_PARSE of str_to_date
ALLOWED_PARSE_DATE == <<"%d %B %Y", "%e %B %Y", "%B %d %Y", "%B %e %Y", "%F", "%d/%m/%Y">>

\* the for loop of str_to_time from pattern i on: the pattern it returns
\* with, 0 when it runs to its end
RECURSIVE TimeLoop(_, _)
TimeLoop(s, i) ==
  IF i > Len(ALLOWED_PARSE_TIME) THEN 0
  ELSE IF NaiveTimeParse(s, ALLOWED_PARSE_TIME[i])[1] = "Ok" THEN i
  ELSE TimeLoop(s, i + 1)

\* the mutation: after the loop the last pattern is parsed again
str_to_time_last_error(s) ==
  LET i == TimeLoop(s, 1)
  IN IF i # 0 THEN NaiveTimeParse(s, ALLOWED_PARSE_TIME[i])
     ELSE NaiveTimeParse(s, ALLOWED_PARSE_TIME[Len(ALLOWED_PARSE_TIME)])

\* str_to_time (convert.rs 3-12)
str_to_time(s) ==
  LET i == TimeLoop(s, 1)
  IN IF i # 0 THEN NaiveTimeParse(s, ALLOWED_PARSE_TIME[i])
     ELSE NaiveTimeParse(s, ALLOWED_PARSE_TIME[1])

RECURSIVE DateLoop(_, _)
DateLoop(s, i) ==
  IF i > Len(ALLOWED_PARSE_DATE) THEN 0
  ELSE IF NaiveDateParse(s, ALLOWED_PARSE_DATE[i])[1] = "Ok" THEN i
  ELSE DateLoop(s, i + 1)

\* str_to_date (convert.rs 14-25)
str_to_date(s) ==
  LET i == DateLoop(s, 1)
  IN IF i # 0 THEN NaiveDateParse(s, ALLOWED_PARSE_DATE[i])
     ELSE NaiveDateParse(s, ALLOWED_PARSE_DATE[1])

\* a call of str_to_time, as clap makes for a time argument
StrToTime(s) ==
  /\ pc = "convert"
  /\ call' = [fn |-> "str_to_time", arg |-> s, result |-> str_to_time(s)]
  /\ UNCHANGED <<list_of_blocks, key_order, pc, SuggestFrame, stdout, stdin, files>>

\* a call of str_to_date
StrToDate(s) ==
  /\ pc = "convert"
  /\ call' = [fn |-> "str_to_date", arg |-> s, result |-> str_to_date(s)]
  /\ UNCHANGED <<list_of_blocks, key_order, pc, SuggestFrame, stdout, stdin, files>>

(***************************************************************************)
(* Calls of the two converters                                             *)
(***************************************************************************)
InitConvert ==
  /\ list_of_blocks = EmptyMap
  /\ pc = "convert"
  /\ block_name = ""
  /\ block_settings = BlockSettingsNew
  /\ final_schedule = <<>>
  /\ cwd = Home
  /\ original_curdir = Home
  /\ stdout = <<>>
  /\ key_order = <<>>
  /\ stdin = "open"
  /\ files = NoFiles
  /\ call = NoCall

\* times as typed: hour, separator, minute, suffix
TimeTexts ==
  { h \o sep \o m \o suffix :
      h \in { <<"9">>, <<"0", "9">>, <<"1", "2">>, <<"1", "3">>, <<"2", "5">>, <<>> },
      sep \in { <<":">>, <<".">> },
      m \in { <<"0", "0">>, <<"5">>, <<"6", "0">> },
      suffix \in { <<>>, <<"p", "m">>, <<"A", "M">>, <<"x", "m">>, <<"p">> } }

DayTexts == { <<"1">>, <<"0", "1">>, <<"3", "1">> }
MonthTexts == { <<<<"Feb", "ruary">>, <<"2">>>>, <<<<"Mar">>, <<"0", "3">>>> }
YearTexts == { <<"2", "0", "2", "0">>, <<"2", "1">> }

\* dates as typed: day month year by name, month day year by name,
\* year-month-day, day/month/year and day.month.year
DateTexts ==
  UNION { { d \o <<" ">> \o m[1] \o <<" ">> \o y,
            m[1] \o <<" ">> \o d \o <<" ">> \o y,
            y \o <<"-">> \o m[2] \o <<"-">> \o d,
            d \o <<"/">> \o m[2] \o <<"/">> \o y,
            d \o <<".">> \o m[2] \o <<".">> \o y } :
          d \in DayTexts, m \in MonthTexts, y \in YearTexts }

NextConvert ==
  \/ \E s \in TimeTexts : StrToTime(s)
  \/ \E s \in DateTexts : StrToDate(s)

SpecConvert == InitConvert /\ [][NextConvert]_vars

\* what the claim describes: the result of the first pattern of the list
\* that parses s, and the result of the first pattern when none does
FirstToParse(parse(_, _), formats, s) ==
  LET oks == {i \in DOMAIN formats : parse(s, formats[i])[1] = "Ok"}
  IN IF oks = {} THEN parse(s, formats[1])
     ELSE parse(s, formats[CHOOSE i \in oks : \A j \in oks : i <= j])

\* C18: str_to_time and str_to_date return the result of the first pattern
\* of their list that parses the text, and the error of the first pattern of
\* the list when no pattern parses it.
C18_FirstPatternWins ==
  /\ call.fn = "str_to_time" =>
       call.result = FirstToParse(NaiveTimeParse, ALLOWED_PARSE_TIME, call.arg)
  /\ call.fn = "str_to_date" =>
       call.result = FirstToParse(NaiveDateParse, ALLOWED_PARSE_DATE, call.arg)

\* a time that no pattern parses, and that the first and the last pattern
\* reject for different reasons
C18_Witness ==
  /\ call.fn = "str_to_time"
  /\ call.result[1] = "Err"
  /\ call.result # NaiveTimeParse(call.arg, ALLOWED_PARSE_TIME[6])

(***************************************************************************)
(* suggestdialog.rs: the browser's search command                          *)
(***************************************************************************)
\* the characters of the pieces of the paths of the model
Chars(piece) ==
  CASE piece = "/" -> <<"/">>
    [] piece = "home" -> <<"h", "o", "m", "e">>
    [] piece = "apps" -> <<"a", "p", "p", "s">>
    [] piece = "game.exe" -> <<"g", "a", "m", "e", ".", "e", "x", "e">>
    [] piece = "notes.txt" -> <<"n", "o", "t", "e", "s", ".", "t", "x", "t">>
    [] piece = "odd" -> <<"o", "d", "d">>
    [] piece = "games" -> <<"g", "a", "m", "e", "s">>
    [] piece = "gone" -> <<"g", "o", "n", "e">>
    [] OTHER -> <<"n", "o", "w", "h", "e", "r", "e">>

\* e.path().to_str().unwrap(): the characters of a path
RECURSIVE PathChars(_)
PathChars(path) ==
  IF path = <<>> THEN <<>> ELSE Chars(Head(path)) \o PathChars(Tail(path))

\* Scoring::new(50, 0, 20, 0): 50 for a matched character that directly
\* follows the matched character before it, 20 off for each character
\* passed over between two matched characters, nothing for the start of a
\* word or for the case
Gain(prev, ti) ==
  IF prev = 0 THEN 0
  ELSE IF ti = prev + 1 THEN 50
  ELSE 0 - 20 * (ti - prev - 1)

\* The best total for the characters of q from qi on, found in order in t
\* from ti on, after a match at prev: <<"Some", score>>, or <<"None">> when
\* they do not all occur in order
RECURSIVE BestFrom(_, _, _, _, _)
BestFrom(q, qi, t, ti, prev) ==
  IF qi > Len(q) THEN <<"Some", 0>>
  ELSE IF ti > Len(t) THEN <<"None">>
  ELSE LET skip == BestFrom(q, qi, t, ti + 1, prev)
           rest == BestFrom(q, qi + 1, t, ti + 1, ti)
           take == IF t[ti] = q[qi] /\ rest[1] = "Some"
                     THEN <<"Some", rest[2] + Gain(prev, ti)>>
                     ELSE <<"None">>
       IN IF take[1] = "None" THEN skip
          ELSE IF skip[1] = "None" THEN take
          ELSE IF take[2] >= skip[2] THEN take ELSE skip

\* best_match (suggestdialog.rs 142-148); the texts of the model are in
\* lower case, where case_insensitive() changes nothing
best_match(query, target) == BestFrom(query, 1, PathChars(target), 1, 0)

\* WalkDir::new(dir): the directory, then its entries in read_dir order,
\* each directory followed by its own content; a link is not followed
RECURSIVE Walk(_)
RECURSIVE WalkEntries(_)
Walk(dir) == <<dir>> \o WalkEntries(read_dir(dir))
WalkEntries(entries) ==
  IF entries = <<>> THEN <<>>
  ELSE (IF Head(entries) \in Directories THEN Walk(Head(entries)) ELSE <<Head(entries)>>)
         \o WalkEntries(Tail(entries))

\* the filters of exe_iterable (suggestdialog.rs 572-578)
Matches(keyword, cur_dir) ==
  SelectSeq(Walk(cur_dir),
            LAMBDA e : /\ extension(e) = "exe" \/ is_dir(e)
                       /\ to_str_is_some(e)
                       /\ best_match(keyword, e)[1] = "Some")

\* the place sort_by gives to one more element x behind the sorted elements:
\* behind every element that does not compare greater, Match comparing by
\* its score and the closure comparing b with a
RECURSIVE InsertSorted(_, _, _)
InsertSorted(keyword, sorted, x) ==
  IF sorted = <<>> THEN <<x>>
  ELSE IF best_match(keyword, x)[2] > best_match(keyword, Head(sorted))[2]
    THEN <<x>> \o sorted
    ELSE <<Head(sorted)>> \o InsertSorted(keyword, Tail(sorted), x)

RECURSIVE SortFrom(_, _, _)
SortFrom(keyword, sorted, vec) ==
  IF vec = <<>> THEN sorted
  ELSE SortFrom(keyword, InsertSorted(keyword, sorted, Head(vec)), Tail(vec))

\* the mutation: the candidates stay in the order of the walk
SortKeepsWalkOrder(keyword, vec_exe) == vec_exe

\* vec_exe.sort_by(...) (suggestdialog.rs 604-614): a stable sort
SortByBestMatch(keyword, vec_exe) == SortFrom(keyword, <<>>, vec_exe)

\* search <keyword>.  selection is what the MultiSelect returned; with no
\* item to show it returns its error.  Another number of words does nothing.
BrowseSearch(shlex_parse, selection) ==
  /\ stdin = "open"
  /\ UNCHANGED <<stdin, files, key_order>>
  /\ BrowsePrompt
  /\ Len(shlex_parse) >= 1 /\ shlex_parse[1] = "search"
  /\ IF Len(shlex_parse) # 2
       THEN /\ stdout' = <<>>
            /\ UNCHANGED <<block_settings, call>>
       ELSE LET keyword == shlex_parse[2]
                vec_exe == SortByBestMatch(keyword, Matches(keyword, cwd))
            IN /\ call' = [fn |-> "search", keyword |-> keyword, cur_dir |-> cwd,
                           vec_exe |-> vec_exe]
               /\ IF selection[1] = "Err" \/ vec_exe = <<>>
                    THEN /\ stdout' = <<"Finding possible matches ...",
                                        "Sorting matches by best match ...",
                                        "IO error">>
                         /\ UNCHANGED block_settings
                    ELSE /\ selection[2] \subseteq 0..(Len(vec_exe) - 1)
                         /\ Len(block_settings.apps) + Cardinality(selection[2]) <= MaxList
                         /\ stdout' = <<"Finding possible matches ...",
                                        "Sorting matches by best match ...">>
                         /\ block_settings' =
                              [block_settings EXCEPT !.apps =
                                 PushSelected(@, vec_exe,
                                              Ascending(selection[2], 0, Len(vec_exe)))]
  /\ UNCHANGED <<list_of_blocks, pc, block_name, final_schedule, cwd, original_curdir>>

\* search lines typed at the browser prompt, after shlex::split, the
\* keyword as its characters
SearchLines ==
  { <<"search", <<"m", "s">>>>, <<"search", <<"o">>>>, <<"search", <<"g", "a", "m", "e">>>>,
    <<"search", <<"z">>>>, <<"search">> }

\* A user who builds block "a", any number of times, searching the
\* directories for the applications
NextDialogSearch ==
  \/ WizName("a")
  \/ WizLock(<<3, FALSE>>)
  \/ WizBreak(<<0>>)
  \/ WizWebGate(FALSE)
  \/ WizExcGate(FALSE)
  \/ WizAppGate(TRUE)
  \/ \E line \in {<<"cd">>, <<"cd", Apps>>} : BrowseCd(line)
  \/ \E line \in SearchLines, selection \in Selections : BrowseSearch(line, selection)
  \/ BrowseDone(<<"done">>)
  \/ WizWin10(FALSE, {})
  \/ WizTitleGate(FALSE)
  \/ WizSchedGate(FALSE)
  \/ WizMore(FALSE)
  \/ WizSaveQ(FALSE)

SpecDialogSearch == InitDialogHome /\ [][NextDialogSearch]_vars

\* the place of a path in a list
PlaceIn(list, path) == CHOOSE i \in 1..Len(list) : list[i] = path

\* the score of a candidate of the last search
ScoreOf(path) == best_match(call.keyword, path)[2]

\* C19: the candidates the search shows all have a fuzzy match with the
\* keyword, stand in an order of never increasing score, and candidates of
\* the same score stand in the order the walk of the directory found them
C19_SearchCandidatesOrdered ==
  call.fn = "search" =>
    LET vec_exe == call.vec_exe
        found == Walk(call.cur_dir)
    IN /\ \A i \in 1..Len(vec_exe) :
            /\ best_match(call.keyword, vec_exe[i])[1] = "Some"
            /\ \E k \in 1..Len(found) : found[k] = vec_exe[i]
       /\ \A i, j \in 1..Len(vec_exe) :
            i < j =>
              /\ ScoreOf(vec_exe[i]) >= ScoreOf(vec_exe[j])
              /\ ScoreOf(vec_exe[i]) = ScoreOf(vec_exe[j])
                   => PlaceIn(found, vec_exe[i]) < PlaceIn(found, vec_exe[j])

\* a search whose best candidate was found last and whose other two
\* candidates have the same score, with a path of the walk left out
C19_Witness ==
  /\ call.fn = "search"
  /\ Len(call.vec_exe) = 3
  /\ Len(Walk(call.cur_dir)) > 3
  /\ ScoreOf(call.vec_exe[1]) > ScoreOf(call.vec_exe[2])
  /\ ScoreOf(call.vec_exe[2]) = ScoreOf(call.vec_exe[3])
  /\ PlaceIn(Walk(call.cur_dir), call.vec_exe[1]) > PlaceIn(Walk(call.cur_dir), call.vec_exe[3])
  /\ \E i \in 1..Len(block_settings.apps) : block_settings.apps[i] = <<"Folder", Games>>

(***************************************************************************)
(* suggestdialog.rs: the stages that collect strings until an empty one    *)
(***************************************************************************)
\* what is typed at "Add a new website" and "Add a new window title"
WebTexts == {"", "a.com", "b.com"}

ExcTexts == {"", "c.com"}

TitleTexts == {"", "v", "w"}

\* A user who builds block "a", any number of times, with websites,
\* exceptions and window titles
NextDialogLists ==
  \/ WizName("a")
  \/ WizLock(<<3, FALSE>>)
  \/ WizBreak(<<0>>)
  \/ \E website_block \in BOOLEAN : WizWebGate(website_block)
  \/ \E website \in WebTexts : WizWeb(website)
  \/ \E website_exception \in BOOLEAN : WizExcGate(website_exception)
  \/ \E website \in ExcTexts : WizExc(website)
  \/ WizAppGate(FALSE)
  \/ WizWin10(FALSE, {})
  \/ \E allow_window_title \in BOOLEAN : WizTitleGate(allow_window_title)
  \/ \E window \in TitleTexts : WizTitle(window)
  \/ WizSchedGate(FALSE)
  \/ WizMore(FALSE)
  \/ WizSaveQ(FALSE)

SpecDialogLists == InitDialogHome /\ [][NextDialogLists]_vars

\* a stage whose gate was answered yes starts with nothing changed
StageStarts(stage) == pc' = stage /\ block_settings' = block_settings

\* C20: in the stages of the websites, the exceptions and the window
\* titles, a yes at the gate starts the stage with its list as it was, each
\* non-empty string typed is put at the end of the list of the stage and the
\* stage asks again, and the first empty string ends the stage and adds
\* nothing: an empty string typed first leaves the list as the gate found it
C20_StagesCollectUntilEmpty ==
  [][ /\ WizWebGate(TRUE) => StageStarts("w_web")
      /\ WizExcGate(TRUE) => StageStarts("w_exc")
      /\ WizTitleGate(TRUE) => StageStarts("w_title")
      /\ \A website \in WebTexts :
           WizWeb(website) =>
             IF website = ""
               THEN pc' = "w_exc_gate" /\ block_settings' = block_settings
               ELSE /\ pc' = "w_web"
                    /\ block_settings' =
                         [block_settings EXCEPT !.web = block_settings.web \o <<website>>]
      /\ \A website \in ExcTexts :
           WizExc(website) =>
             IF website = ""
               THEN pc' = "w_app_gate" /\ block_settings' = block_settings
               ELSE /\ pc' = "w_exc"
                    /\ block_settings' =
                         [block_settings EXCEPT
                            !.exceptions = block_settings.exceptions \o <<website>>]
      /\ \A window \in TitleTexts :
           WizTitle(window) =>
             IF window = ""
               THEN pc' = "w_sched_gate" /\ block_settings' = block_settings
               ELSE /\ pc' = "w_title"
                    /\ block_settings' =
                         [block_settings EXCEPT
                            !.apps = block_settings.apps \o <<<<"Title", window>>>>]
    ]_vars

\* the three stages have ended, with two websites typed in an order that is
\* not the sorted one, no exception and one window title
C20_Witness ==
  /\ pc = "w_sched_gate"
  /\ block_settings.web = <<"b.com", "a.com">>
  /\ block_settings.exceptions = <<"file://*">>
  /\ block_settings.apps = <<<<"Title", "w">>>>

(***************************************************************************)
(* schedule.rs and suggestdialog.rs: what one Add puts into the schedule   *)
(***************************************************************************)
\* flags of one `add` line: single days, the three group flags, the days a
\* group flag stands for, and days given more than once
AddFlagSets ==
  { {}, {"mon"}, {"wkday"}, {"mon", "tue", "wed", "thu", "fri"}, {"wkend"}, {"sat", "sun"},
    {"all"}, {"sat", "wkend"}, {"all", "wkday", "sun"} }

\* days ticked at the wizard's MultiSelect
AddDayChoices == { {}, {3}, {6, 0} }

NextAddCommands ==
  \/ \E tp \in TimePairs, flags \in AddFlagSets, b \in ScheduleBreaks :
       SchedAdd(tp[1], tp[2], flags, b)
  \/ SchedRemove(<<>>, TRUE)
  \/ SchedDone

NextAddDialog ==
  \/ WizName("a")
  \/ WizLock(<<0>>)
  \/ WizBreak(<<0>>)
  \/ WizWebGate(FALSE)
  \/ WizExcGate(FALSE)
  \/ WizAppGate(FALSE)
  \/ WizWin10(FALSE, {})
  \/ WizTitleGate(FALSE)
  \/ WizSchedGate(TRUE)
  \/ \E add_sched \in BOOLEAN, days \in AddDayChoices, tp \in TimePairs, b \in BreakChoices :
       WizSched(add_sched, days, tp[1], tp[2], b)
  \/ WizMore(FALSE)
  \/ WizSaveQ(FALSE)

NextAdd == NextAddCommands \/ NextAddDialog

SpecAdd == InitBuilder /\ [][NextAdd]_vars

\* the day, as a number from Sunday = 0, a day flag names
FlagDay(flag) ==
  CASE flag = "sun" -> 0 [] flag = "mon" -> 1 [] flag = "tue" -> 2 [] flag = "wed" -> 3
    [] flag = "thu" -> 4 [] flag = "fri" -> 5 [] flag = "sat" -> 6

\* the days that the flags of a line select
DaysSelected(flags) ==
  {FlagDay(d) : d \in flags \ {"wkday", "wkend", "all"}}
    \cup (IF "wkday" \in flags THEN 1..5 ELSE {})
    \cup (IF "wkend" \in flags THEN {0, 6} ELSE {})
    \cup (IF "all" \in flags THEN 0..6 ELSE {})

\* the k-th day of a set of days, from Sunday on
NthDay(days, k) == CHOOSE d \in days : Cardinality({e \in days : e < d}) = k - 1

\* sched is old with one entry more for each of the days, from Sunday on
AppendsOnePerDay(old, sched, days) ==
  /\ Len(sched) = Len(old) + Cardinality(days)
  /\ \A i \in 1..Len(old) : sched[i] = old[i]

\* C21: an Add, typed as a command or made in the wizard, leaves the entries
\* of the schedule as they are and puts behind them one entry for each day
\* selected, from Sunday to Saturday, each with the start, the end and the
\* break given; --wkday selects Monday to Friday, --wkend Saturday and
\* Sunday, --all every day, and a day selected twice gives one entry
C21_AddOneEntryPerDay ==
  [][ /\ \A tp \in TimePairs, flags \in AddFlagSets, b \in ScheduleBreaks :
           SchedAdd(tp[1], tp[2], flags, b) =>
             LET days == DaysSelected(flags)
                 n == Len(final_schedule)
             IN /\ AppendsOnePerDay(final_schedule, final_schedule', days)
                /\ \A k \in 1..Cardinality(days) :
                     /\ final_schedule'[n + k].start_time = TimeText(NthDay(days, k), tp[1])
                     /\ final_schedule'[n + k].end_time = TimeText(NthDay(days, k), tp[2])
                     /\ final_schedule'[n + k].break_type = BreakString(b)
      /\ \A days \in AddDayChoices, tp \in TimePairs, b \in BreakChoices :
           WizSched(TRUE, days, tp[1], tp[2], b) =>
             LET n == Len(block_settings.schedule)
                 sched == block_settings'.schedule
             IN /\ AppendsOnePerDay(block_settings.schedule, sched, days)
                /\ \A k \in 1..Cardinality(days) :
                     /\ sched[n + k].start_time =
                          [day_of_week |-> DayOfIndex(NthDay(days, k)), time |-> tp[1]]
                     /\ sched[n + k].end_time =
                          [day_of_week |-> DayOfIndex(NthDay(days, k)), time |-> tp[2]]
                     /\ sched[n + k].break_type = break_method_from_stdin(b)
    ]_vars

\* a schedule with an entry for Monday, then the entries of an Add with
\* --sat --wkend: one for Sunday and one for Saturday
C21_Witness ==
  /\ pc = "schedule"
  /\ Len(final_schedule) = 3
  /\ final_schedule[1].start_time = "1,22,0"
  /\ final_schedule[2].start_time = "0,10,3"
  /\ final_schedule[3].start_time = "6,10,3"
  /\ final_schedule[3].break_type = "100"

(***************************************************************************)
(* suggestdialog.rs: lines the browser cannot carry out                    *)
(***************************************************************************)
\* the step keeps the browser at its prompt, in the same directory, with the
\* same targets, and prints a message
RejectedWithMessage ==
  /\ pc' = "w_browse"
  /\ cwd' = cwd
  /\ block_settings' = block_settings
  /\ stdout' # <<>>

\* C22: a cd to a path that does not exist leaves the working directory and
\* the targets as they are, prints a message about the failure, and the
\* browser prompts again
C22_FailedCdReported ==
  [][ \A line \in CdLines :
        (BrowseCd(line) /\ Len(line) = 2 /\ ~is_dir(line[2])) => RejectedWithMessage ]_vars

\* C23: a line that is none of cd, ls, search, done, quit and q, a line with
\* no words and a line that cannot be split into words are each answered
\* with a message, change neither the working directory nor the targets,
\* and the browser prompts again
C23_OtherLinesRejected ==
  [][ (\/ BrowseUnparsed
       \/ BrowseEmpty
       \/ \E line \in OtherLines : BrowseOther(line)) => RejectedWithMessage ]_vars

(***************************************************************************)
(* suggest.rs and blocksettings.rs: the text of the window field           *)
(***************************************************************************)
\* times typed for a time range
WindowTimes == { <<9, 0>>, <<17, 0>>, <<0, 5>>, <<23, 59>> }

NextWindowCommands ==
  \/ NewBlock("a")
  \/ \E start_time \in WindowTimes, end_time \in WindowTimes, unlocked \in BOOLEAN,
        lock \in BOOLEAN :
       Config("a", <<"Range", start_time, end_time, unlocked>>, lock)
  \/ List(TRUE)

NextWindowDialog ==
  \/ WizName("a")
  \/ \E start_time \in WindowTimes, end_time \in WindowTimes, lock_range \in BOOLEAN :
       WizLock(<<2, start_time, end_time, lock_range>>)
  \/ WizBreak(<<0>>)
  \/ WizWebGate(FALSE)
  \/ WizExcGate(FALSE)
  \/ WizAppGate(FALSE)
  \/ WizWin10(FALSE, {})
  \/ WizTitleGate(FALSE)
  \/ WizSchedGate(FALSE)
  \/ WizMore(FALSE)
  \/ WizSaveQ(TRUE)
  \/ WizSave("mine", 7, <<"Ok">>, <<"Ok">>)

NextWindow == NextWindowCommands \/ NextWindowDialog

SpecWindow == InitSave /\ [][NextWindow]_vars

\* a number below 100 in decimal digits, with no padding
Unpadded(n) ==
  IF n < 10 THEN Digits[n + 1] ELSE Digits[(n \div 10) + 1] \o Digits[(n % 10) + 1]

\* the text the window field is to have
WindowText(lock_range, start_time, end_time) ==
  (IF lock_range THEN "lock" ELSE "unlock")
    \o "@" \o Unpadded(start_time[1]) \o "," \o Unpadded(start_time[2])
    \o "@" \o Unpadded(end_time[1]) \o "," \o Unpadded(end_time[2])

\* C24: the window field is "lock" or "unlock", then "@", the hour of the
\* start, a comma and its minute, then the same for the end, the numbers
\* without padding; the Config Range command and the serializer of
\* RangeWindow give this same text for the same flag and times
C24_WindowEncoding ==
  [][ /\ \A start_time \in WindowTimes, end_time \in WindowTimes, unlocked \in BOOLEAN,
            lock \in BOOLEAN :
           (Config("a", <<"Range", start_time, end_time, unlocked>>, lock)
              /\ "a" \in DOMAIN list_of_blocks) =>
             list_of_blocks'["a"].window = WindowText(~unlocked, start_time, end_time)
      /\ \A start_time \in WindowTimes, end_time \in WindowTimes, lock_range \in BOOLEAN :
           WizLock(<<2, start_time, end_time, lock_range>>) =>
             RangeWindowJson(block_settings'.window)
               = WindowText(lock_range, start_time, end_time)
    ]_vars

\* a block locked during 09:00 to 17:00 by the Config command
C24_Witness ==
  /\ pc = "suggest"
  /\ "a" \in DOMAIN list_of_blocks
  /\ list_of_blocks["a"].lock = "Range"
  /\ list_of_blocks["a"].window = "lock@9,0@17,0"

(***************************************************************************)
(* suggest.rs: Add                                                         *)
(***************************************************************************)
\* What Suggest::Add stores in an existing block and the line it prints
\* (suggest.rs 459-497).  path_type is <<"Web", except>>, <<"File">>,
\* <<"Folder">>, <<"Win10">> or <<"Title">>; path is the text after
\* path.replace("\\", "/")
AddAssign(bs, name, path_type, path) ==
  CASE path_type[1] = "Web" ->
         IF path_type[2]
           THEN <<[bs EXCEPT !.exceptions = Append(@, path)],
                  "Added " \o path \o " to " \o name \o " as a website exception">>
           ELSE <<[bs EXCEPT !.web = Append(@, path)],
                  "Added " \o path \o " to " \o name \o " as a website">>
    [] path_type[1] = "File" ->
         <<[bs EXCEPT !.apps = Append(@, "file:" \o path)],
           "Added " \o path \o " to " \o name \o " as a file">>
    [] path_type[1] = "Folder" ->
         <<[bs EXCEPT !.apps = Append(@, "app:" \o path)],
           "Added " \o path \o " to " \o name \o " as a folder">>
    [] path_type[1] = "Win10" ->
         <<[bs EXCEPT !.apps = Append(@, "win10:" \o path)],
           "Added " \o path \o " to " \o name \o " as a Windows 10 application">>
    [] path_type[1] = "Title" ->
         <<[bs EXCEPT !.apps = Append(@, "title:" \o path)],
           "Added " \o path \o " to " \o name \o " as a window title">>

\* Suggest::Add; path is the text typed, in pieces
Add(name, path_type, path) ==
  /\ stdin = "open"
  /\ UNCHANGED <<stdin, files, call, key_order>>
  /\ pc = "suggest"
  /\ IF contains_key(name)
       THEN LET r == AddAssign(list_of_blocks[name], name, path_type,
                               PathText(ReplaceBackslash(path)))
            IN /\ Len(r[1].web) + Len(r[1].exceptions) + Len(r[1].apps) <= MaxList + 1
               /\ list_of_blocks' = [list_of_blocks EXCEPT ![name] = r[1]]
               /\ stdout' = <<r[2]>>
       ELSE /\ stdout' = DoesNotExist(name)
            /\ list_of_blocks' = list_of_blocks
  /\ UNCHANGED <<pc, SuggestFrame>>

\* paths and names typed in an `add` line
AddPaths == { <<"C:", "\\", "Games", "\\", "game.exe">>, <<"/", "home", "/", "apps">> }

AppKinds == {"File", "Folder", "Win10", "Title"}

PathTypes == { <<"Web", TRUE>> } \cup { <<kind>> : kind \in AppKinds }

NextTargetCommands ==
  \/ NewBlock("a")
  \/ \E path_type \in PathTypes, path \in AddPaths : Add("a", path_type, path)
  \/ List(TRUE)

\* A user of the wizard who picks targets of each kind and saves
NextTargetDialog ==
  \/ WizName("a")
  \/ WizLock(<<0>>)
  \/ WizBreak(<<0>>)
  \/ WizWebGate(FALSE)
  \/ WizExcGate(FALSE)
  \/ WizAppGate(TRUE)
  \/ \E line \in {<<"ls">>, <<"ls", Apps>>}, selection \in Selections :
       BrowseLs(line, selection)
  \/ BrowseDone(<<"done">>)
  \/ \E win10_blocks \in BOOLEAN : WizWin10(win10_blocks, {1})
  \/ \E allow_window_title \in BOOLEAN : WizTitleGate(allow_window_title)
  \/ \E window \in TitleTexts : WizTitle(window)
  \/ WizSchedGate(FALSE)
  \/ WizMore(FALSE)
  \/ WizSaveQ(TRUE)
  \/ WizSave("mine", 7, <<"Ok">>, <<"Ok">>)

NextTarget == NextTargetCommands \/ NextTargetDialog

SpecTarget == InitSave /\ [][NextTarget]_vars

\* the prefix of a kind of target
KindPrefix(kind) ==
  CASE kind = "File" -> "file:"
    [] kind = "Folder" -> "folder:"
    [] kind = "Win10" -> "win10:"
    [] kind = "Title" -> "title:"

\* the text of a path with a slash for each backslash
RECURSIVE Slashed(_)
Slashed(path) ==
  IF path = <<>> THEN ""
  ELSE (IF Head(path) = "\\" THEN "/" ELSE Head(path)) \o Slashed(Tail(path))

\* the text a target of the wizard is to be written as
TargetText(app) ==
  KindPrefix(app[1]) \o (IF app[1] \in {"File", "Folder"} THEN Slashed(app[2]) ELSE app[2])

\* C25: a target is written as the prefix of its kind, "file:", "folder:",
\* "win10:" or "title:", and its value, the path of a file or folder with no
\* backslash left in it, both when the Add command stores it and when an
\* AppString of the wizard is serialized
C25_AppTargetsPrefixed ==
  [][ /\ \A kind \in AppKinds, path \in AddPaths :
           (Add("a", <<kind>>, path) /\ "a" \in DOMAIN list_of_blocks) =>
             list_of_blocks'["a"].apps
               = Append(list_of_blocks["a"].apps, KindPrefix(kind) \o Slashed(path))
      /\ pc' \in DialogPcs =>
           \A i \in 1..Len(block_settings'.apps) :
             AppStringJson(block_settings'.apps[i]) = TargetText(block_settings'.apps[i])
    ]_vars

(***************************************************************************)
(* suggest.rs and blocksettings.rs: the tag of the lock method             *)
(***************************************************************************)
\* answers at the wizard's lock stage, one for each method
LockChoices ==
  { <<0>>, <<1, 30>>, <<2, <<9, 0>>, <<17, 0>>, TRUE>>, <<3, FALSE>>, <<4, "hunter2">> }

NextTagCommands ==
  \/ NewBlock("a")
  \/ \E lock_method \in LockMethods : Lock("a", lock_method)
  \/ List(TRUE)
  \/ \E create \in CreateResults : Save(<<"Some", "mine">>, 7, create, <<"Ok">>)

NextTagDialog ==
  \/ WizName("a")
  \/ \E choice \in LockChoices : WizLock(choice)
  \/ WizBreak(<<0>>)
  \/ WizWebGate(FALSE)
  \/ WizExcGate(FALSE)
  \/ WizAppGate(FALSE)
  \/ WizWin10(FALSE, {})
  \/ WizTitleGate(FALSE)
  \/ WizSchedGate(FALSE)
  \/ \E continue_settings \in BOOLEAN : WizMore(continue_settings)
  \/ WizSaveQ(TRUE)
  \/ \E create \in CreateResults : WizSave("mine", 7, create, <<"Ok">>)

NextTag == NextTagCommands \/ NextTagDialog

SpecTag == InitSave /\ [][NextTag]_vars

\* the tags in lower case letters only
LowercaseTags == {"none", "random", "randomtext", "window", "restart", "password"}

\* the tag is in lower case, and the tag of the time window is "window"
TagOk(lock, tag) == tag \in LowercaseTags /\ (lock = "Range" => tag = "window")

\* C26: the lock method of every block, in the command session and in the
\* wizard, is written as a tag in lower case, the time window as "window"
C26_LockTagsLowercase ==
  IF InDialog
    THEN /\ TagOk(block_settings.lock, WizLockMethodJson(block_settings.lock))
         /\ \A k \in DOMAIN list_of_blocks :
              TagOk(list_of_blocks[k].lock, WizLockMethodJson(list_of_blocks[k].lock))
    ELSE \A k \in DOMAIN list_of_blocks :
           TagOk(list_of_blocks[k].lock, LockMethodJson(list_of_blocks[k].lock))

(***************************************************************************)
(* schedule.rs, suggest.rs and blocksettings.rs: numbers written as text   *)
(***************************************************************************)
\* lengths typed for the random text
LengthInputs == {5, 30, 1000}

NextNumberCommands ==
  \/ NewBlock("a")
  \/ \E length \in LengthInputs : Config("a", <<"Random", length>>, TRUE)
  \/ Schedule("a")
  \/ \E flags \in FlagSets : SchedAdd(<<9, 0>>, <<17, 0>>, flags, <<"Nobreak">>)
  \/ SchedPrint
  \/ SchedDone
  \/ List(TRUE)

NextNumberDialog ==
  \/ WizName("a")
  \/ \E length \in LengthInputs : WizLock(<<1, length>>)
  \/ WizBreak(<<0>>)
  \/ WizWebGate(FALSE)
  \/ WizExcGate(FALSE)
  \/ WizAppGate(FALSE)
  \/ WizWin10(FALSE, {})
  \/ WizTitleGate(FALSE)
  \/ \E schedule_block \in BOOLEAN : WizSchedGate(schedule_block)
  \/ \E add_sched \in BOOLEAN, days \in DayChoices :
       WizSched(add_sched, days, <<9, 0>>, <<17, 0>>, <<0>>)
  \/ WizMore(FALSE)
  \/ WizSaveQ(TRUE)
  \/ WizSave("mine", 7, <<"Ok">>, <<"Ok">>)

NextNumber == NextNumberCommands \/ NextNumberDialog

SpecNumber == InitSave /\ [][NextNumber]_vars

\* the numbers up to max as decimal text strings of the output
DecimalStrings(max) == {"\"" \o to_string(n) \o "\"" : n \in 0..max}

\* the schedules the output of the session can show
ShownSchedules ==
  {list_of_blocks[k].schedule : k \in DOMAIN list_of_blocks}
    \cup (IF InDialog THEN {block_settings.schedule} ELSE {final_schedule})

\* C27: the random text length of every block and the id of every schedule
\* entry are written in the output as text strings of decimal digits
C27_NumbersWrittenAsText ==
  /\ \A k \in DOMAIN list_of_blocks :
       (IF InDialog THEN u16_str_serialize(list_of_blocks[k].random_text_length)
        ELSE Quote(list_of_blocks[k].random_text_length)) \in DecimalStrings(1000)
  /\ \A sched \in ShownSchedules : \A i \in 1..Len(sched) :
       (IF InDialog THEN usize_str_serialize(sched[i].id)
        ELSE serialize_usize(sched[i].id)) \in DecimalStrings(MaxSched + 7)

(***************************************************************************)
(* suggestdialog.rs: the order of the stages of one policy                 *)
(***************************************************************************)
\* A user of the wizard who builds one policy and may enter every stage
NextDialogStages ==
  \/ WizName("a")
  \/ \E choice \in {<<0>>, <<3, FALSE>>} : WizLock(choice)
  \/ \E choice \in {<<0>>, <<1, 100>>} : WizBreak(choice)
  \/ \E website_block \in BOOLEAN : WizWebGate(website_block)
  \/ \E website \in {"", "a.com"} : WizWeb(website)
  \/ \E website_exception \in BOOLEAN : WizExcGate(website_exception)
  \/ \E website \in ExcTexts : WizExc(website)
  \/ \E app_block \in BOOLEAN : WizAppGate(app_block)
  \/ BrowseLs(<<"ls">>, <<"Ok", {0}>>)
  \/ BrowseCd(<<"cd", Apps>>)
  \/ BrowseDone(<<"done">>)
  \/ \E win10_blocks \in BOOLEAN : WizWin10(win10_blocks, {0})
  \/ \E allow_window_title \in BOOLEAN : WizTitleGate(allow_window_title)
  \/ \E window \in {"", "w"} : WizTitle(window)
  \/ \E schedule_block \in BOOLEAN : WizSchedGate(schedule_block)
  \/ \E add_sched \in BOOLEAN : WizSched(add_sched, {3}, <<9, 0>>, <<17, 0>>, <<0>>)
  \/ WizMore(FALSE)
  \/ WizSaveQ(FALSE)

SpecDialogStages == InitDialog /\ [][NextDialogStages]_vars

\* the place of a stage in the order: lock method, break method, web rules,
\* web exceptions, filesystem targets, system apps, window titles, schedule;
\* 0 where no stage of a policy is running
StageOf(at) ==
  CASE at = "w_lock" -> 1
    [] at = "w_break" -> 2
    [] at \in {"w_web_gate", "w_web"} -> 3
    [] at \in {"w_exc_gate", "w_exc"} -> 4
    [] at \in {"w_app_gate", "w_browse"} -> 5
    [] at = "w_win10" -> 6
    [] at \in {"w_title_gate", "w_title"} -> 7
    [] at \in {"w_sched_gate", "w_sched"} -> 8
    [] OTHER -> 0

\* C28: while one policy is built, a step stays in its stage or goes to the
\* stage that follows it in the order, the first stage being the lock
\* method, so that no stage starts early and none is entered again; and a
\* no at the gate of a stage leaves the list of that stage as it was
C28_StagesInOrder ==
  [][ /\ StageOf(pc') # 0 =>
           IF StageOf(pc) = 0 THEN StageOf(pc') = 1
           ELSE StageOf(pc') \in {StageOf(pc), StageOf(pc) + 1}
      /\ WizWebGate(FALSE) => block_settings'.web = block_settings.web
      /\ WizExcGate(FALSE) => block_settings'.exceptions = block_settings.exceptions
      /\ WizAppGate(FALSE) => block_settings'.apps = block_settings.apps
      /\ WizWin10(FALSE, {0}) => block_settings'.apps = block_settings.apps
      /\ WizTitleGate(FALSE) => block_settings'.apps = block_settings.apps
      /\ WizSchedGate(FALSE) => block_settings'.schedule = block_settings.schedule
    ]_vars

\* a policy whose stages were all passed, with a lock, a break, a website,
\* an exception, a folder, a window title and a schedule entry
C28_Witness ==
  /\ pc = "w_more"
  /\ block_settings.lock = "Restart"
  /\ block_settings.break_type = <<"Allowance", 100>>
  /\ block_settings.web = <<"a.com">>
  /\ block_settings.exceptions = <<"file://*", "c.com">>
  /\ Len(block_settings.apps) = 2
  /\ block_settings.apps[2] = <<"Title", "w">>
  /\ Len(block_settings.schedule) = 1

(***************************************************************************)
(* suggestdialog.rs: the session of the wizard, policy after policy        *)
(***************************************************************************)
\* A user of the wizard who builds blocks with default answers, looks at the
\* directory or not, adds blocks or not, and saves or not
NextDialogSession ==
  \/ \E name \in BlockNames : WizName(name)
  \/ WizLock(<<0>>)
  \/ WizBreak(<<0>>)
  \/ WizWebGate(FALSE)
  \/ WizExcGate(FALSE)
  \/ \E app_block \in BOOLEAN : WizAppGate(app_block)
  \/ BrowseDone(<<"done">>)
  \/ WizWin10(FALSE, {})
  \/ WizTitleGate(FALSE)
  \/ WizSchedGate(FALSE)
  \/ \E continue_settings \in BOOLEAN : WizMore(continue_settings)
  \/ \E save_to_file \in BOOLEAN : WizSaveQ(save_to_file)
  \/ \E file_name \in TypedNames, create \in CreateResults :
       WizSave(file_name, 7, create, <<"Ok">>)

SpecDialogSession == InitDialog /\ [][NextDialogSession]_vars

\* the save question was asked and answered
PastSaveQuestion == pc \in {"w_save", "w_end"}

\* C29: the session asks for a block name, builds the policy of that name,
\* and asks whether to add another block: a yes leads to the next name and a
\* no to the save question.  The building of a policy starts only from the
\* prompt for its name, the save question comes only from that no, it is
\* never asked again once answered, and the session ends only after it
C29_SessionLoop ==
  [][ /\ pc = "w_name" => StageOf(pc') = 1 /\ block_name' \in BlockNames
      /\ StageOf(pc') = 1 => pc = "w_name"
      /\ pc' = "w_more" => StageOf(pc) # 0
      /\ WizMore(TRUE) => pc' = "w_name"
      /\ WizMore(FALSE) => pc' = "w_save_q"
      /\ pc' = "w_name" => pc = "w_more"
      /\ pc' = "w_save_q" => pc = "w_more"
      /\ pc = "w_save_q" => pc' \in {"w_save", "w_end"}
      /\ PastSaveQuestion => pc' = "w_end"
      /\ pc' = "w_end" => pc \in {"w_save_q", "w_save"}
    ]_vars

\* a session that built the blocks a and b, was asked the save question
\* once, and saved
C29_Witness ==
  /\ pc = "w_end"
  /\ DOMAIN list_of_blocks = {"a", "b"}
  /\ files["mine.ctbbl"].exists

(***************************************************************************)
(* suggest.rs: what a Config leaves alone                                  *)
(***************************************************************************)
\* the fields of a block
BlockFields == DOMAIN SuggestBlockSettingsNew

\* C30: a Config of an existing block changes, of all the fields of the
\* block, only the configuration field of the method it names and, with
\* --lock, the active lock method, which becomes that method; without --lock
\* the active lock method stays, and the other blocks stay as they are
C30_ConfigFrame ==
  [][ \A name \in DOMAIN list_of_blocks, c \in ConfigInputs, lock \in BOOLEAN :
        Config(name, c, lock) =>
          /\ DOMAIN list_of_blocks' = DOMAIN list_of_blocks
          /\ \A other \in DOMAIN list_of_blocks \ {name} :
               list_of_blocks'[other] = list_of_blocks[other]
          /\ \A f \in BlockFields \ {ConfigField(c[1]), "lock"} :
               list_of_blocks'[name][f] = list_of_blocks[name][f]
          /\ list_of_blocks'[name].lock = IF lock THEN c[1] ELSE list_of_blocks[name].lock
    ]_vars

\* a block locked by restart whose time range was configured without --lock
C30_Witness ==
  /\ pc = "suggest"
  /\ stdout = <<"Block a was configured with a time range">>
  /\ list_of_blocks["a"].lock = "Restart"
  /\ list_of_blocks["a"].window # SuggestBlockSettingsNew.window

(***************************************************************************)
(* schedule.rs: Edit and Remove with ids that are not in the schedule      *)
(***************************************************************************)
\* C31: an Edit whose id is not the index of an entry, on an empty schedule
\* too, leaves the schedule as it is, prints that the id does not exist, and
\* the schedule session goes on to its next command
C31_BadEditIdReported ==
  [][ \A id \in 0..MaxSched, e \in EditInputs :
        (SchedEdit(id, e[1], e[2], e[3], e[4]) /\ id >= Len(final_schedule)) =>
          /\ final_schedule' = final_schedule
          /\ pc' = "schedule"
          /\ stdout' # <<>> ]_vars

\* the entries of a schedule whose ids are not among ids, in their order
KeptEntries(sched, ids) == SelectSeq(sched, LAMBDA b : b.id \notin Range(ids))

\* the times and the break of the entries of a schedule
TimesAndBreaks(sched) ==
  [i \in 1..Len(sched) |-> <<sched[i].start_time, sched[i].end_time, sched[i].break_type>>]

\* C32: a Remove that names an id that is not in the schedule does not end
\* the schedule session: every entry whose id is not named is kept and the
\* session goes on to its next command
C32_BadRemoveIdSurvives ==
  [][ \A ids \in IdLists :
        (SchedRemove(ids, FALSE) /\ \E i \in 1..Len(ids) : ids[i] >= Len(final_schedule)) =>
          /\ pc' = "schedule"
          /\ TimesAndBreaks(final_schedule')
               = TimesAndBreaks(KeptEntries(final_schedule, ids)) ]_vars

\* the entries of a schedule at the positions, from 0, that are not among ids
AtOtherPositions(sched, ids) ==
  LET others == SelectSeq([i \in 1..Len(sched) |-> i], LAMBDA i : (i - 1) \notin Range(ids))
  IN [k \in 1..Len(others) |-> sched[others[k]]]

\* C33: a Remove whose ids are all positions of the schedule takes out the
\* entries at those positions, an id named twice once, and keeps the other
\* entries in their order with their times and breaks; a Remove --all
\* leaves the schedule empty, whatever ids it is given
C33_RemoveExactlyNamed ==
  [][ \A ids \in IdLists :
        /\ (SchedRemove(ids, FALSE) /\ \A i \in 1..Len(ids) : ids[i] < Len(final_schedule)) =>
             /\ pc' = "schedule"
             /\ TimesAndBreaks(final_schedule')
                  = TimesAndBreaks(AtOtherPositions(final_schedule, ids))
        /\ SchedRemove(ids, TRUE) => final_schedule' = <<>> /\ pc' = "schedule" ]_vars

\* a Remove that named entry 1 twice has left two of three entries
C33_Witness ==
  /\ pc = "schedule"
  /\ stdout = <<"Deleted schedule blocks 1", "Deleted schedule blocks 1">>
  /\ Len(final_schedule) = 2

\* C34: an Edit whose id is a position of the schedule replaces the entry at
\* that position, which keeps the id and takes the day, times and break
\* given; the number of entries and every other entry are unchanged
C34_EditReplacesOne ==
  [][ \A id \in 0..MaxSched, e \in EditInputs :
        (SchedEdit(id, e[1], e[2], e[3], e[4]) /\ id < Len(final_schedule)) =>
          /\ Len(final_schedule') = Len(final_schedule)
          /\ \A i \in 1..Len(final_schedule) :
               i # id + 1 => final_schedule'[i] = final_schedule[i]
          /\ final_schedule'[id + 1].id = id
          /\ final_schedule'[id + 1].start_time = DayNum(e[1]) \o StringEnd(e[2])
          /\ final_schedule'[id + 1].end_time = DayNum(e[1]) \o StringEnd(e[3])
          /\ final_schedule'[id + 1].break_type = BreakString(e[4]) ]_vars

\* entry 1 of a schedule of three has been edited and differs from the others
C34_Witness ==
  /\ pc = "schedule"
  /\ stdout = <<"Edited schedule block 1">>
  /\ Len(final_schedule) = 3
  /\ final_schedule[2].break_type # final_schedule[1].break_type
  /\ final_schedule[2].start_time # final_schedule[3].start_time

(***************************************************************************)
(* suggest.rs: Delete                                                      *)
(***************************************************************************)
\* iter().position(|s| *s == x): the first index, from 1, of x in the list,
\* 0 for None
Position(list, x) ==
  IF \E i \in 1..Len(list) : list[i] = x
    THEN CHOOSE i \in 1..Len(list) :
           list[i] = x /\ \A j \in 1..(i - 1) : list[j] # x
    ELSE 0

\* Vec::swap_remove(idx): the last element takes the place of the one removed
swap_remove(list, idx) ==
  LET n == Len(list)
  IN IF idx = n THEN SubSeq(list, 1, n - 1)
     ELSE [SubSeq(list, 1, n - 1) EXCEPT ![idx] = list[n]]

\* What Suggest::Delete does to an existing block and the line it prints
\* (suggest.rs 506-561); path is the text typed, unchanged
DeleteAssign(bs, name, path_type, path) ==
  CASE path_type[1] = "Web" ->
         LET remove_vec == IF path_type[2] THEN bs.exceptions ELSE bs.web
             idx == Position(remove_vec, path)
         IN IF idx # 0
              THEN <<IF path_type[2]
                       THEN [bs EXCEPT !.exceptions = swap_remove(@, idx)]
                       ELSE [bs EXCEPT !.web = swap_remove(@, idx)],
                     "Web path " \o path \o " removed from block " \o name>>
              ELSE <<bs, "Web path " \o path \o " does not exist in block " \o name>>
    [] path_type[1] = "File" ->
         LET idx == Position(bs.apps, "file:" \o path)
         IN IF idx # 0
              THEN <<[bs EXCEPT !.apps = swap_remove(@, idx)],
                     "File " \o path \o " removed from " \o name>>
              ELSE <<bs, "File " \o path \o " does not exist in " \o name>>
    [] path_type[1] = "Folder" ->
         LET idx == Position(bs.apps, "folder:" \o path)
         IN IF idx # 0
              THEN <<[bs EXCEPT !.apps = swap_remove(@, idx)],
                     "Folder " \o path \o " removed from " \o name>>
              ELSE <<bs, "Folder " \o path \o " does not exist in " \o name>>
    [] path_type[1] = "Title" ->
         LET idx == Position(bs.apps, "title:" \o path)
         IN IF idx # 0
              THEN <<[bs EXCEPT !.apps = swap_remove(@, idx)],
                     "Window title " \o path \o " removed from " \o name>>
              ELSE <<bs, "Window title " \o path \o " does not exist in " \o name>>
    [] path_type[1] = "Win10" ->
         LET idx == Position(bs.apps, "win10:" \o path)
         IN IF idx # 0
              THEN <<[bs EXCEPT !.apps = swap_remove(@, idx)],
                     "Windows 10 application " \o path \o " removed from " \o name>>
              ELSE <<bs, "Windows 10 application " \o path
                           \o " does not exist in " \o name>>

\* Suggest::Delete; path is the text typed, in pieces
Delete(name, path_type, path) ==
  /\ stdin = "open"
  /\ UNCHANGED <<stdin, files, call, key_order>>
  /\ pc = "suggest"
  /\ IF contains_key(name)
       THEN LET r == DeleteAssign(list_of_blocks[name], name, path_type, PathText(path))
            IN /\ list_of_blocks' = [list_of_blocks EXCEPT ![name] = r[1]]
               /\ stdout' = <<r[2]>>
       ELSE /\ stdout' = DoesNotExist(name)
            /\ list_of_blocks' = list_of_blocks
  /\ UNCHANGED <<pc, SuggestFrame>>

\* the path types of an `add` or a `delete` line
DeleteTypes == PathTypes \cup { <<"Web", FALSE>> }

\* A user who adds targets to a block and deletes them
NextDelete ==
  \/ NewBlock("a")
  \/ \E path_type \in DeleteTypes, path \in AddPaths : Add("a", path_type, path)
  \/ \E path_type \in DeleteTypes, path \in AddPaths : Delete("a", path_type, path)

SpecDelete == InitSuggest /\ [][NextDelete]_vars

\* the three lists of targets of a block
Targets(bs) == <<bs.web, bs.exceptions, bs.apps>>

\* a list without its last entry
Front(list) == SubSeq(list, 1, Len(list) - 1)

\* the lists of a block as they were before an Add of this type appended
\* its entry
BeforeAdd(bs, path_type) ==
  CASE path_type[1] = "Web" /\ path_type[2] -> <<bs.web, Front(bs.exceptions), bs.apps>>
    [] path_type[1] = "Web" /\ ~path_type[2] -> <<Front(bs.web), bs.exceptions, bs.apps>>
    [] OTHER -> <<bs.web, bs.exceptions, Front(bs.apps)>>

\* the last step was the Add of this path, of this type, to block a
JustAdded(path_type, path) ==
  /\ pc = "suggest"
  /\ "a" \in DOMAIN list_of_blocks
  /\ stdout = <<AddAssign(list_of_blocks["a"], "a", path_type,
                          PathText(ReplaceBackslash(path)))[2]>>

\* C37: a Delete that comes right after an Add of the same block, type and
\* path leaves the web, exceptions and apps lists of the block as they were
\* before the Add, for every path type and every path
C37_DeleteUndoesAdd ==
  [][ \A path_type \in DeleteTypes, path \in AddPaths :
        (JustAdded(path_type, path) /\ Delete("a", path_type, path)) =>
          Targets(list_of_blocks'["a"]) = BeforeAdd(list_of_blocks["a"], path_type) ]_vars

\* the entry of a list that a Delete of this type and path addresses
Addressed(path_type, path) ==
  IF path_type[1] = "Web" THEN PathText(path)
  ELSE KindPrefix(path_type[1]) \o PathText(path)

\* the index in Targets of the list a path type addresses
ListOf(path_type) ==
  IF path_type[1] = "Web" THEN (IF path_type[2] THEN 2 ELSE 1) ELSE 3

\* a list without its entry at index i
WithoutAt(list, i) == SubSeq(list, 1, i - 1) \o SubSeq(list, i + 1, Len(list))

\* C38: a Delete of an entry that is in the list it addresses takes one
\* occurrence out of that list and leaves the other entries of the list in
\* their order, and the other lists as they were; a Delete of an entry that
\* is not in the list changes nothing
C38_DeleteOneOccurrence ==
  [][ \A path_type \in DeleteTypes, path \in AddPaths :
        (Delete("a", path_type, path) /\ "a" \in DOMAIN list_of_blocks) =>
          LET old == Targets(list_of_blocks["a"])
              new == Targets(list_of_blocks'["a"])
              k == ListOf(path_type)
              entry == Addressed(path_type, path)
          IN IF \E i \in 1..Len(old[k]) : old[k][i] = entry
               THEN /\ \E i \in 1..Len(old[k]) :
                         old[k][i] = entry /\ new[k] = WithoutAt(old[k], i)
                    /\ \A j \in 1..3 : j # k => new[j] = old[j]
               ELSE list_of_blocks' = list_of_blocks ]_vars

(***************************************************************************)
(* suggest.rs: commands that name a block                                  *)
(***************************************************************************)
\* A user who gives every command that names a block, to a block that
\* exists and to one that does not
NextNamed ==
  \/ NewBlock("a")
  \/ \E name \in BlockNames : RemoveBlock(name)
  \/ \E name \in BlockNames : Unlock(name)
  \/ \E name \in BlockNames : Lock(name, "Random")
  \/ \E name \in BlockNames : Config(name, <<"Restart", FALSE>>, TRUE)
  \/ \E name \in BlockNames : Nobreak(name)
  \/ \E name \in BlockNames : Allowance(name, 99)
  \/ \E name \in BlockNames : Pomodoro(name, 25, 5)
  \/ \E name \in BlockNames : Add(name, <<"Web", FALSE>>, <<"/", "home", "/", "apps">>)
  \/ \E name \in BlockNames : Delete(name, <<"Web", FALSE>>, <<"/", "home", "/", "apps">>)
  \/ \E name \in BlockNames : Continuous(name)
  \/ \E name \in BlockNames : Schedule(name)
  \/ \E name \in BlockNames : Settings(name)
  \/ \E tp \in TimePairs, flags \in FlagSets : SchedAdd(tp[1], tp[2], flags, <<"Nobreak">>)
  \/ SchedDone

SpecNamed == InitSuggest /\ [][NextNamed]_vars

\* a step of one of the commands that name a block, with this name
Names(name) ==
  \/ RemoveBlock(name)
  \/ Unlock(name)
  \/ Lock(name, "Random")
  \/ Config(name, <<"Restart", FALSE>>, TRUE)
  \/ Nobreak(name)
  \/ Allowance(name, 99)
  \/ Pomodoro(name, 25, 5)
  \/ Add(name, <<"Web", FALSE>>, <<"/", "home", "/", "apps">>)
  \/ Delete(name, <<"Web", FALSE>>, <<"/", "home", "/", "apps">>)
  \/ Continuous(name)
  \/ Schedule(name)
  \/ Settings(name)

\* C35: a command that names a block that is not in the map, RemoveBlock,
\* Unlock, Lock, Config, Nobreak, Allowance, Pomodoro, Add, Delete,
\* Continuous, Schedule or Settings, leaves the map as it was and starts no
\* schedule sub-session: the session goes on with the next command
C35_MissingBlockFrame ==
  [][ \A name \in BlockNames :
        (Names(name) /\ name \notin DOMAIN list_of_blocks) =>
          /\ list_of_blocks' = list_of_blocks
          /\ pc' = "suggest" ]_vars

\* block b was named while the map held only a changed block a
C35_Witness ==
  /\ pc = "suggest"
  /\ stdout = <<"Block b does not exist">>
  /\ DOMAIN list_of_blocks = {"a"}
  /\ list_of_blocks["a"] # SuggestBlockSettingsNew

\* C36: NewBlock with a name that is a key leaves every block as it was;
\* NewBlock with a new name adds one block, with the default settings, and
\* changes no other; RemoveBlock removes the block named and changes no other
C36_NewAndRemoveFrame ==
  [][ \A name \in BlockNames :
        /\ (NewBlock(name) /\ name \in DOMAIN list_of_blocks) =>
             list_of_blocks' = list_of_blocks
        /\ (NewBlock(name) /\ name \notin DOMAIN list_of_blocks) =>
             /\ DOMAIN list_of_blocks' = DOMAIN list_of_blocks \cup {name}
             /\ list_of_blocks'[name] = SuggestBlockSettingsNew
             /\ \A k \in DOMAIN list_of_blocks : list_of_blocks'[k] = list_of_blocks[k]
        /\ (RemoveBlock(name) /\ name \in DOMAIN list_of_blocks) =>
             /\ DOMAIN list_of_blocks' = DOMAIN list_of_blocks \ {name}
             /\ \A k \in DOMAIN list_of_blocks' : list_of_blocks'[k] = list_of_blocks[k]
    ]_vars

\* block a has been removed next to a block b whose break had been set
C36_Witness ==
  /\ pc = "suggest"
  /\ stdout = <<"Block a removed">>
  /\ DOMAIN list_of_blocks = {"b"}
  /\ list_of_blocks["b"].break_type # "none"

\* C39: a Schedule command on a block of the map starts its sub-session
\* with an empty schedule, and the Done that ends the sub-session makes the
\* entries of the sub-session the whole schedule of the block: what an
\* earlier Schedule command had stored in the block is not kept
C39_ScheduleReplaced ==
  [][ /\ \A name \in BlockNames :
           (Schedule(name) /\ name \in DOMAIN list_of_blocks) =>
             /\ pc' = "schedule"
             /\ final_schedule' = <<>>
      /\ SchedDone =>
           /\ pc' = "suggest"
           /\ Len(list_of_blocks'[block_name].schedule) = Len(final_schedule)
           /\ TimesAndBreaks(list_of_blocks'[block_name].schedule)
                = TimesAndBreaks(final_schedule) ]_vars

\* a second sub-session of a block that holds the schedule of the first one
\* has started
C39_Witness ==
  /\ pc = "schedule"
  /\ final_schedule = <<>>
  /\ stdout = <<>>
  /\ block_name \in DOMAIN list_of_blocks
  /\ list_of_blocks[block_name].schedule # <<>>

\* C40: every iteration of the browser loop prompts for a command, and a
\* done, quit or q entered at the prompt ends the loop with the wizard at the
\* question about Windows 10 applications
C40_BrowserEndsOnDone ==
  [][ /\ pc = "w_browse" => BrowsePrompt
      /\ \A line \in DoneLines : BrowseDone(line) => pc' = "w_win10" ]_vars

====
